---- MODULE Spec2Model ----
(***************************************************************************)
(* StreamGo preload (src/src/preload.ts): the unified MutationObserver     *)
(* fan-out, the external-player interception and the quick-resume store.   *)
(* Each component has its own specification over the shared variables; a   *)
(* component's actions leave the other components' variables unchanged.    *)
(***************************************************************************)
EXTENDS Integers, Sequences, FiniteSets, TLC

\* ------------------------------------------------------------------------
\* Bounds of the model (not program constants)
\* ------------------------------------------------------------------------
MaxBurst == 3          \* mutation batches delivered between two paint frames

NumSlots == 2          \* invocations of the interception the model can hold at once

MaxSaves == 2          \* saves of stream info in one run

MaxClock == 150        \* the last clock reading, in ms

MaxInputs == 3         \* scroll, wheel and touchmove events in one run

MaxCleanups == 3       \* cleanup callbacks registered in one run

Slots == 1..NumSlots

\* ------------------------------------------------------------------------
\* Generic helpers
\* ------------------------------------------------------------------------
Range(s) == {s[i] : i \in 1..Len(s)}

Min(S) == CHOOSE x \in S : \A y \in S : x <= y

VARIABLES
    \* --- unified MutationObserver (preload.ts 44-117) ---
    observerHandlers,   \* Map<string, ObserverHandler> in insertion order
    unifiedObserver,    \* "null" | "observing" | "disconnected"
    observerRafId,      \* 0 models null, otherwise the pending frame's id
    rafQueue,           \* animation-frame callbacks the browser holds
    burst,              \* batches delivered since the last paint frame
    frameLog,           \* what the last paint frame dispatched
    \* --- external-player interception (preload.ts 1527-1757, 2051-2278) ---
    externalPlayer,             \* localStorage[EXTERNAL_PLAYER]
    externalPlayerPath,         \* localStorage[EXTERNAL_PLAYER_PATH]
    isHandlingExternalPlayer,   \* the global busy flag
    externalPlayerActive,       \* body class 'external-player-active'
    route,                      \* which kind of route location.href names
    video,                      \* the rendered video element
    sess,                       \* invocations of handleExternalPlayerInterception
    launches,                   \* per invocation: the launch requests it sent
    navBacks,                   \* per invocation: its history.back() calls
    lastLog,                    \* the last [ExternalPlayer] line the logger got
    \* --- one probe of the locator on given inputs (preload.ts 1639-1705) ---
    probe,
    \* --- quick resume (preload.ts 1891-1981) ---
    lastStreams,        \* localStorage[LAST_STREAMS]
    savedStreams,       \* the map the last save built, before the cap
    saveLog,            \* what the last save did
    saves,              \* saves run so far
    clickLog,           \* what the last Continue Watching click did
    \* --- scroll state detection (preload.ts 1814-1869) ---
    perfNow,            \* performance.now(), in ms
    isScrolling,
    lastScrollTime,
    scrollTimeout,      \* the pending setTimeout of handleScroll
    scrollRaf,          \* whether the frame callback behind rafId is pending
    scrollingActive,    \* classes 'scrolling-active' / 'performance-mode'
    scrollCalls,        \* inputs seen, pauseAllObservers / resumeAllObservers calls made
    \* --- event cleanup registry (preload.ts 169-190) ---
    eventCleanupRegistry,   \* Map<string, Array<() => void>>
    cleanupLog,             \* what the last runEventCleanups called
    registered              \* callbacks registered so far

obsVars == <<observerHandlers, unifiedObserver, observerRafId, rafQueue,
             burst, frameLog>>

icVars == <<externalPlayer, externalPlayerPath, isHandlingExternalPlayer,
            externalPlayerActive, route, video, sess, launches, navBacks, lastLog>>

\* what the actions of one component leave alone
storeVars == <<lastStreams, savedStreams, saveLog, saves>>

cleanupVars == <<eventCleanupRegistry, cleanupLog, registered>>

scrollVars == <<perfNow, isScrolling, lastScrollTime, scrollTimeout, scrollRaf,
                scrollingActive, scrollCalls>>

notObsVars == <<cleanupVars, icVars, probe, storeVars, clickLog, scrollVars>>

notIcVars == <<cleanupVars, obsVars, probe, storeVars, clickLog, scrollVars>>

notProbeVars == <<cleanupVars, obsVars, icVars, storeVars, clickLog, scrollVars>>

notStoreVars == <<cleanupVars, obsVars, icVars, probe, clickLog, scrollVars>>

notScrollVars == <<cleanupVars, obsVars, icVars, probe, storeVars, clickLog>>

notCleanupVars == <<obsVars, icVars, probe, storeVars, clickLog, scrollVars>>

vars == <<observerHandlers, unifiedObserver, observerRafId, rafQueue,
          burst, frameLog,
          externalPlayer, externalPlayerPath, isHandlingExternalPlayer,
          externalPlayerActive, route, video, sess, launches, navBacks, lastLog,
          probe, lastStreams, savedStreams, saveLog, saves, clickLog,
          perfNow, isScrolling, lastScrollTime, scrollTimeout, scrollRaf,
          scrollingActive, scrollCalls,
          eventCleanupRegistry, cleanupLog, registered>>

\* ------------------------------------------------------------------------
\* UNIFIED MUTATION OBSERVER SYSTEM
\* ------------------------------------------------------------------------
\* two of the handler ids the preload registers (lines 360 and 1072)
HandlerIds == {"title-bar", "icon-injection"}

\* the function objects callers pass to registerObserverHandler: every
\* call of it passes a closure of its own
Callbacks == {"cb1", "cb2"}

ActiveIds(hs) == {hs[i].id : i \in {j \in 1..Len(hs) : hs[j].active}}

HasHandler(hs, id) == \E i \in 1..Len(hs) : hs[i].id = id

\* Map.set: an existing key keeps its position, a new key is appended
MapSet(hs, id, h) ==
    IF HasHandler(hs, id)
    THEN [i \in 1..Len(hs) |-> IF hs[i].id = id THEN h ELSE hs[i]]
    ELSE Append(hs, h)

\* Map.delete
MapDelete(hs, id) == SelectSeq(hs, LAMBDA h : h.id # id)

\* initUnifiedObserver: create and connect the observer unless one exists
initUnifiedObserver(obs) == IF obs # "null" THEN obs ELSE "observing"

\* (mutant) the observer is kept when the last handler goes
ReleaseObserverNever(hs, obs) == obs

\* the tail of unregisterObserverHandler: drop the observer with the last handler
ReleaseObserver(hs, obs) ==
    IF Len(hs) = 0 /\ obs # "null" THEN "null" ELSE obs

\* (mutant) the pending frame is not cancelled
CancelPendingNever(q, rafId) == q

\* cancelAnimationFrame(observerRafId) guarded by `if (observerRafId)`
CancelPending(q, rafId) ==
    IF rafId # 0 THEN {c \in q : c.id # rafId} ELSE q

\* requestAnimationFrame hands out an id that no pending callback holds
FreshRafId(q) == Min({n \in 1..(Cardinality(q) + 1) : \A c \in q : c.id # n})

\* (mutant) no try/catch: the first throwing handler ends the iteration
RECURSIVE DispatchCallsUncaught(_, _, _)
DispatchCallsUncaught(hs, mutations, throwers) ==
    IF hs = <<>> THEN <<>>
    ELSE IF Head(hs).active
         THEN IF Head(hs).id \in throwers
              THEN <<[id |-> Head(hs).id, mutations |-> mutations]>>
              ELSE <<[id |-> Head(hs).id, mutations |-> mutations]>>
                       \o DispatchCallsUncaught(Tail(hs), mutations, throwers)
         ELSE DispatchCallsUncaught(Tail(hs), mutations, throwers)

\* observerHandlers.forEach inside the frame callback: every active handler
\* is called with the batch the callback closed over; a handler that throws
\* is caught and logged, and the iteration goes on with the next handler
RECURSIVE DispatchCalls(_, _, _)
DispatchCalls(hs, mutations, throwers) ==
    IF hs = <<>> THEN <<>>
    ELSE IF Head(hs).active
         THEN <<[id |-> Head(hs).id, mutations |-> mutations]>>
                  \o DispatchCalls(Tail(hs), mutations, throwers)
         ELSE DispatchCalls(Tail(hs), mutations, throwers)

\* logger.error in the catch block: the handlers whose callback threw
DispatchErrors(hs, throwers) ==
    LET act == SelectSeq(hs, LAMBDA h : h.active /\ h.id \in throwers)
    IN  [i \in 1..Len(act) |-> act[i].id]

\* the browser runs the pending callbacks of a frame in id order
RECURSIVE RunCallbacks(_, _, _)
RunCallbacks(q, hs, throwers) ==
    IF q = {} THEN [calls |-> <<>>, errors |-> <<>>]
    ELSE LET c    == CHOOSE x \in q : \A y \in q : x.id <= y.id
             rest == RunCallbacks(q \ {c}, hs, throwers)
         IN  [calls  |-> DispatchCalls(hs, c.mutations, throwers) \o rest.calls,
              errors |-> DispatchErrors(hs, throwers) \o rest.errors]

registerObserverHandler(id, callback) ==
    /\ unifiedObserver' = initUnifiedObserver(unifiedObserver)
    /\ observerHandlers' = MapSet(observerHandlers, id,
                                  [id |-> id, callback |-> callback, active |-> TRUE])
    /\ UNCHANGED <<observerRafId, rafQueue, burst, frameLog>>
    /\ UNCHANGED notObsVars

unregisterObserverHandler(id) ==
    /\ observerHandlers' = MapDelete(observerHandlers, id)
    /\ unifiedObserver' = ReleaseObserver(observerHandlers', unifiedObserver)
    /\ UNCHANGED <<observerRafId, rafQueue, burst, frameLog>>
    /\ UNCHANGED notObsVars

\* the flag is written on every handler of the map
setObserverHandlerActiveAll(id, active) ==
    /\ observerHandlers' =
          [i \in 1..Len(observerHandlers) |->
              [observerHandlers[i] EXCEPT !.active = active]]
    /\ UNCHANGED <<unifiedObserver, observerRafId, rafQueue, burst, frameLog>>
    /\ UNCHANGED notObsVars

setObserverHandlerActive(id, active) ==
    /\ observerHandlers' =
          [i \in 1..Len(observerHandlers) |->
              IF observerHandlers[i].id = id
              THEN [observerHandlers[i] EXCEPT !.active = active]
              ELSE observerHandlers[i]]
    /\ UNCHANGED <<unifiedObserver, observerRafId, rafQueue, burst, frameLog>>
    /\ UNCHANGED notObsVars

\* the body of pauseAllObservers
Paused(obs) == IF obs # "null" THEN "disconnected" ELSE obs

\* the body of resumeAllObservers
Resumed(obs) == IF obs # "null" THEN "observing" ELSE obs

pauseAllObservers ==
    /\ unifiedObserver' = Paused(unifiedObserver)
    /\ UNCHANGED <<observerHandlers, observerRafId, rafQueue, burst, frameLog>>
    /\ UNCHANGED notObsVars

resumeAllObservers ==
    /\ unifiedObserver' = Resumed(unifiedObserver)
    /\ UNCHANGED <<observerHandlers, observerRafId, rafQueue, burst, frameLog>>
    /\ UNCHANGED notObsVars

\* a callback that leaves a pending frame, and the batch it holds, in place
MutationBatchKeepFirst ==
    /\ unifiedObserver = "observing"
    /\ burst < MaxBurst
    /\ IF CancelPending(rafQueue, observerRafId) # rafQueue
       THEN UNCHANGED <<rafQueue, observerRafId>>
       ELSE LET id == FreshRafId(rafQueue)
            IN  /\ rafQueue' = rafQueue \cup {[id |-> id, mutations |-> burst + 1]}
                /\ observerRafId' = id
    /\ burst' = burst + 1
    /\ UNCHANGED <<observerHandlers, unifiedObserver, frameLog>>
    /\ UNCHANGED notObsVars

\* the MutationObserver callback: one batch of records is delivered
MutationBatch ==
    /\ unifiedObserver = "observing"
    /\ burst < MaxBurst
    /\ LET q  == CancelPending(rafQueue, observerRafId)
           id == FreshRafId(q)
       IN  /\ rafQueue' = q \cup {[id |-> id, mutations |-> burst + 1]}
           /\ observerRafId' = id
    /\ burst' = burst + 1
    /\ UNCHANGED <<observerHandlers, unifiedObserver, frameLog>>
    /\ UNCHANGED notObsVars

\* a paint frame: the browser runs the animation-frame callbacks it holds;
\* throwers are the handlers whose callback throws in this frame
AnimationFrame ==
    \E throwers \in SUBSET HandlerIds :
        /\ LET ran == RunCallbacks(rafQueue, observerHandlers, throwers)
           IN  frameLog' = [dispatches |-> Cardinality(rafQueue),
                            calls      |-> ran.calls,
                            errors     |-> ran.errors,
                            burst      |-> burst,
                            active     |-> IF rafQueue = {} THEN {}
                                           ELSE ActiveIds(observerHandlers)]
        /\ rafQueue' = {}
        /\ observerRafId' = IF rafQueue # {} THEN 0 ELSE observerRafId
        /\ burst' = 0
        /\ UNCHANGED <<observerHandlers, unifiedObserver>>
        /\ UNCHANGED notObsVars

ObsInit ==
    /\ observerHandlers = <<>>
    /\ unifiedObserver = "null"
    /\ observerRafId = 0
    /\ rafQueue = {}
    /\ burst = 0
    /\ frameLog = [dispatches |-> 0, calls |-> <<>>, errors |-> <<>>,
                   burst |-> 0, active |-> {}]

ObsNext ==
    \/ \E id \in HandlerIds, callback \in Callbacks : registerObserverHandler(id, callback)
    \/ \E id \in HandlerIds : unregisterObserverHandler(id)
    \/ \E id \in HandlerIds, a \in BOOLEAN : setObserverHandlerActive(id, a)
    \/ pauseAllObservers
    \/ resumeAllObservers
    \/ MutationBatch
    \/ AnimationFrame

\* ------------------------------------------------------------------------
\* EXTERNAL PLAYER INTERCEPTION
\* ------------------------------------------------------------------------
\* JavaScript values the locator looks at: undefined, a non-string, or a
\* string written as the scheme it begins with and the rest of it
Undefined == [kind |-> "undefined", scheme |-> "", rest |-> ""]

NotAString == [kind |-> "number", scheme |-> "", rest |-> "42"]

Str(scheme, rest) == [kind |-> "string", scheme |-> scheme, rest |-> rest]

\* an optional number (seriesInfo.season, seriesInfo.episode)
NoNumber == [known |-> FALSE, n |-> 0]

Num(n) == [known |-> TRUE, n |-> n]

\* `if (x)` on a string-or-undefined value
TruthyStr(x) == x.kind = "string" /\ ~(x.scheme = "" /\ x.rest = "")

\* `if (n)` on a number-or-undefined value: 0 is falsy
TruthyNum(x) == x.known /\ x.n # 0

\* url.startsWith('http')
StartsWithHttp(x) == x.scheme \in {"http", "https"}

\* `${n}` for the one-digit numbers the model uses
Digits(n) == <<"0", "1", "2", "3", "4", "5", "6", "7", "8", "9">>[n + 1]

\* EXTERNAL_PLAYERS.BUILTIN (its value lives in ./constants)
BUILTIN == "builtin"

\* localStorage.getItem(EXTERNAL_PLAYER): "null" stands for a missing key
PlayerSettings == {"null", "", BUILTIN, "disabled", "m3u", "vlc", "mpchc", "mpv"}

PathSettings == {"", "/opt/vlc/vlc"}

Routes == {"player", "other"}

\* the player-state snapshot Helpers._eval returns (interface PlayerState)
PlayerState(contentUrl, deepLink, url, externalUrl, name, season, episode, title) ==
    [contentUrl  |-> contentUrl,    \* stream.content.url
     deepLink    |-> deepLink,      \* selected.stream.deepLinks.externalPlayer.streaming
     url         |-> url,           \* stream.url
     externalUrl |-> externalUrl,   \* stream.externalUrl
     name        |-> name,          \* metaItem.content.name
     season      |-> season,        \* seriesInfo.season
     episode     |-> episode,       \* seriesInfo.episode
     title       |-> title]         \* title

\* the snapshots the interception runs are fed
SessionStates ==
    { PlayerState(Undefined, Undefined, Undefined, Undefined,
                  Undefined, NoNumber, NoNumber, Undefined),
      PlayerState(Str("https", "://x/stream.m3u8"), Undefined, Undefined, Undefined,
                  Str("", "Show"), Num(1), Num(2), Undefined),
      PlayerState(Str("magnet", ":?xt=1"), Str("http", "://b/deeplink"), Undefined, Undefined,
                  Str("", "Show"), NoNumber, NoNumber, Str("", "T")),
      PlayerState(Undefined, NotAString, Str("http", "://c/legacy"), Undefined,
                  Undefined, Num(1), Num(2), Str("", "T")) }

\* document.querySelector('video')?.src
VideoSrcs == {Undefined, Str("blob", ":app/1"), Str("http", "://cdn/video.mp4")}

\* the for-loop over possibleUrls (lines 1646-1662)
RECURSIVE FirstQualifying(_)
FirstQualifying(urls) ==
    IF urls = <<>> THEN Undefined
    ELSE IF TruthyStr(Head(urls)) /\ StartsWithHttp(Head(urls))
         THEN Head(urls)
         ELSE FirstQualifying(Tail(urls))

\* the candidates with the legacy fields tried first
possibleUrlsLegacyFirst(ps) == <<ps.url, ps.externalUrl, ps.contentUrl, ps.deepLink>>

possibleUrls(ps) == <<ps.contentUrl, ps.deepLink, ps.url, ps.externalUrl>>

\* one probe of the locator on a non-null snapshot (lines 1639-1671)
LocateUrl(ps, videoSrc) ==
    LET fromState == FirstQualifying(possibleUrls(ps))
    IN  IF TruthyStr(fromState) THEN fromState
        ELSE IF TruthyStr(videoSrc) /\ StartsWithHttp(videoSrc) THEN videoSrc
        ELSE Undefined

\* (mutant) the season/episode suffix is appended when only one is set
BuildTitleEither(ps) ==
    IF TruthyStr(ps.name)
    THEN IF TruthyNum(ps.season) \/ TruthyNum(ps.episode)
         THEN <<ps.name.rest, " S", Digits(ps.season.n), "E", Digits(ps.episode.n)>>
         ELSE <<ps.name.rest>>
    ELSE IF TruthyStr(ps.title) THEN <<ps.title.rest>>
    ELSE <<"Stremio Stream">>

\* the launch title (lines 1696-1705), as the pieces of the string
BuildTitle(ps) ==
    IF TruthyStr(ps.name)
    THEN IF TruthyNum(ps.season) /\ TruthyNum(ps.episode)
         THEN <<ps.name.rest, " S", Digits(ps.season.n), "E", Digits(ps.episode.n)>>
         ELSE <<ps.name.rest>>
    ELSE IF TruthyStr(ps.title) THEN <<ps.title.rest>>
    ELSE <<"Stremio Stream">>

\* (mutant) the stored string is passed on as it is
CustomPathRaw(stored) == stored

\* localStorage.getItem(EXTERNAL_PLAYER_PATH) || undefined
CustomPath(stored) == IF stored = "" THEN "undefined" ELSE stored

\* (mutant) the double-handling guard is missing
AlreadyHandlingNever(busy) == FALSE

\* line 1533: the double-handling guard
AlreadyHandling(busy) == busy

\* (mutant) only the listed settings are skipped
SkipsInterceptionListed(p) == p \in {"null", "", BUILTIN, "disabled", "m3u"}

\* lines 1539-1543 and 1550: the settings the interception skips
SkipsInterception(p) ==
    \/ p \in {"null", BUILTIN, "", "disabled", "m3u"}
    \/ (p # "vlc" /\ p # "mpchc")

\* lines 2257-2261: the settings the play-button handler ignores
ClickIgnores(p) == p \in {"null", BUILTIN, "", "disabled", "m3u"}

\* line 1622: the locator's attempt budget
MaxAttempts == 20

IdleSession == [pc |-> "idle", player |-> "", attempt |-> 0,
                streamUrl |-> Undefined, title |-> <<>>, keepPaused |-> FALSE]

InFlight(s) == sess[s].pc # "idle"

FreeSlots == {s \in Slots : ~InFlight(s)}

\* stopAllVideos: pause and mute every rendered video
stopAllVideos(v) == [paused |-> TRUE, muted |-> TRUE]

\* the keepPaused interval body: only a playing video is paused and muted
keepPaused(v) == IF ~v.paused THEN [paused |-> TRUE, muted |-> TRUE] ELSE v

\* handleExternalPlayerInterception up to its first await
InterceptionEntry ==
    IF AlreadyHandling(isHandlingExternalPlayer)
    THEN /\ lastLog' = "already-handling"
         /\ UNCHANGED <<isHandlingExternalPlayer, externalPlayerActive, video,
                        sess, launches, navBacks>>
    ELSE IF SkipsInterception(externalPlayer)
    THEN /\ lastLog' = "skipping"
         /\ externalPlayerActive' = FALSE
         /\ UNCHANGED <<isHandlingExternalPlayer, video, sess, launches, navBacks>>
    ELSE /\ FreeSlots # {}
         /\ lastLog' = "intercepting"
         /\ LET s == Min(FreeSlots)
            IN  /\ sess' = [sess EXCEPT ![s] =
                              [IdleSession EXCEPT !.pc = "eval",
                                                  !.player = externalPlayer]]
                /\ launches' = [launches EXCEPT ![s] = <<>>]
                /\ navBacks' = [navBacks EXCEPT ![s] = 0]
         /\ isHandlingExternalPlayer' = TRUE
         /\ externalPlayerActive' = TRUE
         /\ video' = stopAllVideos(video)

\* the hashchange listener (lines 367-391)
HashChange(r) ==
    /\ route' = r
    /\ IF r = "player"
       THEN InterceptionEntry
       ELSE UNCHANGED <<isHandlingExternalPlayer, externalPlayerActive, video,
                        sess, launches, navBacks, lastLog>>
    /\ UNCHANGED <<externalPlayer, externalPlayerPath>>
    /\ UNCHANGED notIcVars

\* the rest of an attempt that found no address: stopAllVideos, then the
\* 200 ms sleep
AttemptFailed(s, line) ==
    /\ sess' = [sess EXCEPT ![s].pc = "sleep"]
    /\ video' = stopAllVideos(video)
    /\ lastLog' = line
    /\ UNCHANGED <<isHandlingExternalPlayer, externalPlayerActive, launches, navBacks,
                   externalPlayer, externalPlayerPath, route>>
    /\ UNCHANGED notIcVars

\* the launch request with the setting as it is stored at the launch
LaunchPlayerStored(s) == externalPlayer

\* line 1724: `player: externalPlayer`, the const read at line 1528 when the
\* invocation began
LaunchPlayer(s) == sess[s].player

\* lines 1696-1747: title, final stop, the launch request, the keepPaused
\* interval and the 10 s wait
Launch(s, ps, streamUrl) ==
    /\ sess' = [sess EXCEPT ![s].pc = "cooldown",
                            ![s].streamUrl = streamUrl,
                            ![s].title = BuildTitle(ps),
                            ![s].keepPaused = TRUE]
    /\ video' = stopAllVideos(video)
    /\ launches' = [launches EXCEPT ![s] =
                       Append(@, [player     |-> LaunchPlayer(s),
                                  url        |-> streamUrl,
                                  title      |-> BuildTitle(ps),
                                  customPath |-> CustomPath(externalPlayerPath)])]
    /\ lastLog' = "ipc-sent"
    /\ UNCHANGED <<isHandlingExternalPlayer, externalPlayerActive, navBacks,
                   externalPlayer, externalPlayerPath, route>>
    /\ UNCHANGED notIcVars

\* what the two Helpers._eval queries of one attempt come to: an exception,
\* null from both, or a snapshot
NoState == PlayerState(Undefined, Undefined, Undefined, Undefined,
                       Undefined, NoNumber, NoNumber, Undefined)

Answers ==
    {[kind |-> "threw", ps |-> NoState], [kind |-> "null", ps |-> NoState]}
    \cup {[kind |-> "state", ps |-> ps] : ps \in SessionStates}

\* the body of one attempt on a given answer and a given video source
\* (lines 1624-1685)
AttemptOn(s, answer, videoSrc) ==
    IF answer.kind = "threw"
    THEN \* the catch block (line 1681), then stop and sleep
         AttemptFailed(s, "attempt-error")
    ELSE IF answer.kind = "null"
    THEN \* `if (playerState)` (line 1639) skips the whole search
         AttemptFailed(s, "no-player-state")
    ELSE LET streamUrl == LocateUrl(answer.ps, videoSrc)
         IN  IF TruthyStr(streamUrl)
             THEN Launch(s, answer.ps, streamUrl)
             ELSE AttemptFailed(s, "stream-not-found")

\* one attempt of the locator loop, from the answer of Helpers._eval on
\* (lines 1623-1685); a null first answer is followed by the second query
Attempt(s) ==
    /\ sess[s].pc = "eval"
    /\ \E answer \in Answers, videoSrc \in VideoSrcs : AttemptOn(s, answer, videoSrc)

LoopContinuesOnceMore(attempt) == attempt < MaxAttempts

\* line 1622: attempt++ and then attempt < 20
LoopContinues(attempt) == attempt + 1 < MaxAttempts

\* (mutant) the exhaustion path forgets to clear the flag
ExhaustedBusyKept == TRUE

\* value written to isHandlingExternalPlayer when the locator is exhausted
ExhaustedBusy == FALSE

\* the 200 ms sleep is over: next attempt, or exhaustion (lines 1688-1694)
SleepDone(s) ==
    /\ sess[s].pc = "sleep"
    /\ IF LoopContinues(sess[s].attempt)
       THEN /\ sess' = [sess EXCEPT ![s].pc = "eval", ![s].attempt = @ + 1]
            /\ UNCHANGED <<isHandlingExternalPlayer, externalPlayerActive, lastLog>>
       ELSE /\ sess' = [sess EXCEPT ![s] = IdleSession]
            /\ lastLog' = "failed"
            /\ externalPlayerActive' = FALSE
            /\ isHandlingExternalPlayer' = ExhaustedBusy
    /\ UNCHANGED <<video, launches, navBacks, externalPlayer, externalPlayerPath, route>>
    /\ UNCHANGED notIcVars

\* a tick of the keepPaused interval (lines 1737-1745)
KeepPausedTick(s) ==
    /\ sess[s].keepPaused
    /\ video' = keepPaused(video)
    /\ UNCHANGED <<isHandlingExternalPlayer, externalPlayerActive, sess, launches,
                   navBacks, externalPlayer, externalPlayerPath, route, lastLog>>
    /\ UNCHANGED notIcVars

\* (mutant) the interval is left running
IntervalAfterCooldownKept == TRUE

\* line 1749: clearInterval(keepPaused)
IntervalAfterCooldown == FALSE

\* the 10 s wait is over (lines 1749-1756)
CooldownEnd(s) ==
    /\ sess[s].pc = "cooldown"
    /\ sess' = [sess EXCEPT ![s] = [IdleSession EXCEPT !.keepPaused = IntervalAfterCooldown]]
    /\ externalPlayerActive' = FALSE
    /\ isHandlingExternalPlayer' = FALSE
    /\ navBacks' = [navBacks EXCEPT ![s] = @ + 1]
    /\ lastLog' = "navigating-back"
    /\ UNCHANGED <<video, launches, externalPlayer, externalPlayerPath, route>>
    /\ UNCHANGED notIcVars

\* the click handler without its classList.add
handlePlayButtonClickNoMarker(onPlayButton) ==
    /\ IF ~ClickIgnores(externalPlayer) /\ onPlayButton
       THEN /\ isHandlingExternalPlayer' = TRUE
            /\ lastLog' = "play-button"
            /\ UNCHANGED externalPlayerActive
       ELSE UNCHANGED <<isHandlingExternalPlayer, externalPlayerActive, lastLog>>
    /\ UNCHANGED <<video, sess, launches, navBacks, externalPlayer,
                   externalPlayerPath, route>>
    /\ UNCHANGED notIcVars

\* handlePlayButtonClick (lines 2253-2278); onPlayButton: target.closest(...)
handlePlayButtonClick(onPlayButton) ==
    /\ IF ~ClickIgnores(externalPlayer) /\ onPlayButton
       THEN /\ isHandlingExternalPlayer' = TRUE
            /\ externalPlayerActive' = TRUE
            /\ lastLog' = "play-button"
       ELSE UNCHANGED <<isHandlingExternalPlayer, externalPlayerActive, lastLog>>
    /\ UNCHANGED <<video, sess, launches, navBacks, externalPlayer,
                   externalPlayerPath, route>>
    /\ UNCHANGED notIcVars

\* the patched HTMLVideoElement.prototype.play (lines 2054-2077)
VideoPlay ==
    /\ video' = IF ~ClickIgnores(externalPlayer) /\ route = "player"
                THEN [paused |-> TRUE, muted |-> TRUE]
                ELSE [video EXCEPT !.paused = FALSE]
    /\ UNCHANGED <<isHandlingExternalPlayer, externalPlayerActive, sess, launches,
                   navBacks, externalPlayer, externalPlayerPath, route, lastLog>>
    /\ UNCHANGED notIcVars

\* the host page changes the element without going through play()
HostSetsVideo(p, m) ==
    /\ video' = [paused |-> p, muted |-> m]
    /\ UNCHANGED <<isHandlingExternalPlayer, externalPlayerActive, sess, launches,
                   navBacks, externalPlayer, externalPlayerPath, route, lastLog>>
    /\ UNCHANGED notIcVars

\* the settings menu stores another player (lines 1379, 1506)
SetExternalPlayer(p) ==
    /\ externalPlayer' = p
    /\ UNCHANGED <<isHandlingExternalPlayer, externalPlayerActive, video, sess,
                   launches, navBacks, externalPlayerPath, route, lastLog>>
    /\ UNCHANGED notIcVars

SetExternalPlayerPath(x) ==
    /\ externalPlayerPath' = x
    /\ UNCHANGED <<isHandlingExternalPlayer, externalPlayerActive, video, sess,
                   launches, navBacks, externalPlayer, route, lastLog>>
    /\ UNCHANGED notIcVars

IcIdle ==
    /\ isHandlingExternalPlayer = FALSE
    /\ externalPlayerActive = FALSE
    /\ route = "other"
    /\ video = [paused |-> TRUE, muted |-> FALSE]
    /\ sess = [s \in Slots |-> IdleSession]
    /\ launches = [s \in Slots |-> <<>>]
    /\ navBacks = [s \in Slots |-> 0]
    /\ lastLog = "none"

\* the settings are whatever an earlier run left in localStorage
IcInit ==
    /\ externalPlayer \in PlayerSettings
    /\ externalPlayerPath \in PathSettings
    /\ IcIdle

IcFixed ==
    /\ externalPlayer = BUILTIN
    /\ externalPlayerPath = ""
    /\ IcIdle

IcNext ==
    \/ \E r \in Routes : HashChange(r)
    \/ \E s \in Slots : Attempt(s)
    \/ \E s \in Slots : SleepDone(s)
    \/ \E s \in Slots : KeepPausedTick(s)
    \/ \E s \in Slots : CooldownEnd(s)
    \/ \E b \in BOOLEAN : handlePlayButtonClick(b)
    \/ VideoPlay
    \/ \E p \in BOOLEAN, m \in BOOLEAN : HostSetsVideo(p, m)
    \/ \E p \in PlayerSettings : SetExternalPlayer(p)
    \/ \E x \in PathSettings : SetExternalPlayerPath(x)

\* an external player is configured and stays so
LocatorInit ==
    /\ externalPlayer \in {"vlc", "mpchc"}
    /\ externalPlayerPath \in PathSettings
    /\ IcIdle

\* navigation, the invocations it starts, and the host's play requests
LocatorNext ==
    \/ \E r \in Routes : HashChange(r)
    \/ \E s \in Slots : Attempt(s)
    \/ \E s \in Slots : SleepDone(s)
    \/ \E s \in Slots : KeepPausedTick(s)
    \/ \E s \in Slots : CooldownEnd(s)
    \/ VideoPlay
    \/ \E p \in BOOLEAN, m \in BOOLEAN : HostSetsVideo(p, m)

\* ------------------------------------------------------------------------
\* One probe of the locator and the title built from it, on given inputs
\* ------------------------------------------------------------------------
\* every snapshot the probe is checked on
PlayerStates ==
    { PlayerState(c, d, u, e, n, se, ep, t) :
        c  \in {Undefined, Str("magnet", ":?xt=1"), Str("https", "://x/stream.m3u8")},
        d  \in {Undefined, NotAString, Str("http", "://b/deeplink")},
        u  \in {Undefined, Str("http", "://c/legacy")},
        e  \in {Undefined, Str("http", "://d/external")},
        n  \in {Undefined, Str("", ""), Str("", "Show")},
        se \in {NoNumber, Num(0), Num(1)},
        ep \in {NoNumber, Num(0), Num(2)},
        t  \in {Undefined, Str("", "T")} }

ProbeInit ==
    probe \in [ps : PlayerStates, videoSrc : VideoSrcs, done : {FALSE},
               streamUrl : {Undefined}, title : {<<>>}]

ProbeFixed ==
    probe = [ps |-> PlayerState(Undefined, Undefined, Undefined, Undefined,
                                Undefined, NoNumber, NoNumber, Undefined),
             videoSrc |-> Undefined, done |-> FALSE,
             streamUrl |-> Undefined, title |-> <<>>]

\* lines 1639-1705 on the snapshot and the video source given: the address
\* found, and the title when one was found
RunProbe ==
    /\ ~probe.done
    /\ LET streamUrl == LocateUrl(probe.ps, probe.videoSrc)
       IN  probe' = [probe EXCEPT !.done = TRUE,
                                  !.streamUrl = streamUrl,
                                  !.title = IF TruthyStr(streamUrl)
                                            THEN BuildTitle(probe.ps) ELSE <<>>]
    /\ UNCHANGED notProbeVars

ProbeNext == RunProbe

\* ------------------------------------------------------------------------
\* QUICK RESUME - the persisted map of last streams
\* ------------------------------------------------------------------------
\* A string is written as the sequence of its pieces, with ":" and "/" as
\* pieces of their own, so that `${contentId}:${episodeId}` is a
\* concatenation.  A JavaScript object is the sequence of its [key, value]
\* entries in property order (insertion order for these keys).

\* line 1957: the number of entries kept
MaxEntries == 100

\* the content ids tt00 .. tt99 of the entries earlier runs left
OldId(n) == <<"tt", Digits(n \div 10), Digits(n % 10)>>

NewId == <<"tt", "1", "0", "0">>

ContentIds == {OldId(0), NewId}

\* Date.now() at the saves of a run; the entries earlier runs left carry the
\* timestamps 1 .. 100, so the first value ties with the oldest of them
Nows == {1, 1000}

\* location.hash, split at "/" (after the leading "#/")
Hashes == { <<<<"player">>, <<"vid1">>, <<"hashA">>>>,
            <<<<"player">>, <<"vid1">>, <<"hashA">>, <<"ep2">>>>,
            <<<<"detail">>, <<"series">>, <<"tt", "0", "0">>>> }

\* segments joined with "/"
RECURSIVE JoinSlash(_)
JoinSlash(segs) ==
    IF Len(segs) = 0 THEN <<>>
    ELSE IF Len(segs) = 1 THEN segs[1]
    ELSE segs[1] \o <<"/">> \o JoinSlash(Tail(segs))

\* hash.match(/#\/player\/([^/]+)\/([^/]+)(?:\/(.+))?/): no match, or the
\* video id, the stream hash and the episode id (<<>> when the group is absent)
PlayerMatch(hash) ==
    IF Len(hash) >= 3 /\ hash[1] = <<"player">> /\ hash[2] # <<>> /\ hash[3] # <<>>
    THEN [matched   |-> TRUE,
          videoId   |-> hash[2],
          streamHash |-> hash[3],
          episodeId |-> JoinSlash(SubSeq(hash, 4, Len(hash)))]
    ELSE [matched |-> FALSE, videoId |-> <<>>, streamHash |-> <<>>, episodeId |-> <<>>]

\* the SavedStreamInfo built at lines 1923-1935
StreamInfo(streamHash, videoId, contentId, type, season, episode, timestamp) ==
    [streamHash |-> streamHash, videoId |-> videoId, contentId |-> contentId,
     type |-> type, season |-> season, episode |-> episode, timestamp |-> timestamp]

\* line 1920: content.type || 'movie' ("" stands for a missing type)
ContentType(type) == IF type = "" THEN "movie" ELSE type

\* lines 1938-1940: the key the fingerprint is stored under
StorageKey(contentType, contentId, episodeId) ==
    IF contentType = "series" /\ episodeId # <<>>
    THEN contentId \o <<":">> \o episodeId
    ELSE contentId

AlsoUnderContentIdNever(contentType) == FALSE

\* line 1951: whether the fingerprint is also stored under the bare content id
AlsoUnderContentId(contentType) == contentType = "series"

HasKey(es, k) == \E i \in 1..Len(es) : es[i].key = k

\* obj[k]
Get(es, k) == es[CHOOSE i \in 1..Len(es) : es[i].key = k].value

\* obj[k] = v: an existing property keeps its place, a new one goes last
Put(es, k, v) ==
    IF HasKey(es, k)
    THEN LET i == CHOOSE j \in 1..Len(es) : es[j].key = k
         IN  SubSeq(es, 1, i - 1) \o <<[key |-> k, value |-> v]>> \o SubSeq(es, i + 1, Len(es))
    ELSE Append(es, [key |-> k, value |-> v])

\* the place of entry i after a stable sort, oldest first
SortedPlaceOldestFirst(es, i) ==
    1 + Cardinality({j \in 1..Len(es) :
                        \/ es[j].value.timestamp < es[i].value.timestamp
                        \/ (es[j].value.timestamp = es[i].value.timestamp /\ j < i)})

\* entries.sort((a, b) => b[1].timestamp - a[1].timestamp): the place of
\* entry i after the stable sort, newest first
SortedPlace(es, i) ==
    1 + Cardinality({j \in 1..Len(es) :
                        \/ es[j].value.timestamp > es[i].value.timestamp
                        \/ (es[j].value.timestamp = es[i].value.timestamp /\ j < i)})

SortByTimestampDesc(es) ==
    LET n     == Len(es)
        place == SubSeq([i \in 1..n |-> SortedPlace(es, i)], 1, n)
    IN  SubSeq([p \in 1..n |-> es[CHOOSE i \in 1..n : place[i] = p]], 1, n)

EnforceCapUnsorted(es) ==
    IF Len(es) > MaxEntries
    THEN SubSeq(es, 1, MaxEntries)
    ELSE es

\* lines 1955-1963: what is written back
EnforceCap(es) ==
    IF Len(es) > MaxEntries
    THEN SubSeq(SortByTimestampDesc(es), 1, MaxEntries)
    ELSE es

\* the blob under STORAGE_KEYS.LAST_STREAMS: missing, not JSON, or an object
MissingBlob == [kind |-> "missing", entries |-> <<>>]

CorruptBlob == [kind |-> "corrupt", entries |-> <<>>]

JSONstringify(es) == [kind |-> "object", entries |-> es]

\* JSON.parse(localStorage.getItem(LAST_STREAMS) || '{}')
JSONparse(blob) ==
    IF blob.kind = "corrupt" THEN [throws |-> TRUE, entries |-> <<>>]
    ELSE [throws |-> FALSE, entries |-> blob.entries]

\* the entry an earlier run stored for movie tt<n> at time t
OldEntry(n, t) ==
    [key |-> OldId(n),
     value |-> StreamInfo(<<"hash0">>, <<"vid0">>, OldId(n), "movie", NoNumber, NoNumber, t)]

\* n entries stored one after the other at the times 1 .. n
Ascending(n) == [i \in 1..n |-> OldEntry(i - 1, i)]

\* the same, after the first of them (tt00) was saved again last
Refreshed(n) == [i \in 1..n |-> IF i = 1 THEN OldEntry(0, n) ELSE OldEntry(i - 1, i - 1)]

\* n entries that carry one and the same reading t of Date.now(), which is
\* the wall clock and can give a value again
AllAt(n, t) == [i \in 1..n |-> OldEntry(i - 1, t)]

\* what earlier runs can have left in localStorage
InitialBlobs ==
    { MissingBlob, CorruptBlob,
      JSONstringify(Ascending(MaxEntries - 1)),
      JSONstringify(Ascending(MaxEntries)),
      JSONstringify(Refreshed(MaxEntries)) }

NoSave == [outcome |-> "none", storageKey |-> <<>>, episodeId |-> <<>>,
           streamInfo |-> StreamInfo(<<>>, <<>>, <<>>, "", NoNumber, NoNumber, 0)]

\* saveCurrentStreamInfo (lines 1891-1969).  Its two awaits (the 1 s wait
\* and the read of the player state) come before anything is read or
\* written, so the rest runs in one step.  contentId <<>> stands for a player
\* state without metaItem.content.id; the player state of a series carries
\* seriesInfo (season 1, episode 2), that of a movie none.
saveCurrentStreamInfo(evalThrows, contentId, type, hash, now) ==
    LET m          == PlayerMatch(hash)
        contentType == ContentType(type)
        seriesInfo == contentType = "series"
        streamInfo == StreamInfo(m.streamHash, m.videoId, contentId, contentType,
                                 IF seriesInfo THEN Num(1) ELSE NoNumber,
                                 IF seriesInfo THEN Num(2) ELSE NoNumber, now)
        storageKey == StorageKey(contentType, contentId, m.episodeId)
        parsed     == JSONparse(lastStreams)
        first      == Put(parsed.entries, storageKey, streamInfo)
        all        == IF AlsoUnderContentId(contentType)
                      THEN Put(first, contentId, streamInfo) ELSE first
    IN  /\ saves < MaxSaves
        /\ saves' = saves + 1
        /\ IF evalThrows
           THEN /\ saveLog' = [NoSave EXCEPT !.outcome = "error"]
                /\ UNCHANGED <<lastStreams, savedStreams>>
           ELSE IF contentId = <<>>
           THEN /\ saveLog' = [NoSave EXCEPT !.outcome = "no-content-id"]
                /\ UNCHANGED <<lastStreams, savedStreams>>
           ELSE IF ~m.matched
           THEN /\ saveLog' = [NoSave EXCEPT !.outcome = "no-match"]
                /\ UNCHANGED <<lastStreams, savedStreams>>
           ELSE IF parsed.throws
           THEN /\ saveLog' = [NoSave EXCEPT !.outcome = "error"]
                /\ UNCHANGED <<lastStreams, savedStreams>>
           ELSE /\ savedStreams' = all
                /\ lastStreams' = JSONstringify(EnforceCap(all))
                /\ saveLog' = [outcome |-> "saved", storageKey |-> storageKey,
                               episodeId |-> m.episodeId, streamInfo |-> streamInfo]
        /\ UNCHANGED notStoreVars

StoreInit ==
    /\ lastStreams \in InitialBlobs
    /\ savedStreams = <<>>
    /\ saveLog = NoSave
    /\ saves = 0
    /\ clickLog = [outcome |-> "none", contentId |-> <<>>, now |-> 0,
                   savedStream |-> [found |-> FALSE, value |-> NoSave.streamInfo],
                   playerUrl |-> <<>>, defaultPrevented |-> FALSE]

\* maps at and just under the cap, with distinct and with equal timestamps
FullBlobs ==
    { JSONstringify(Ascending(MaxEntries)),
      JSONstringify(AllAt(MaxEntries - 1, 1)),
      JSONstringify(AllAt(MaxEntries, 1)),
      JSONstringify(AllAt(MaxEntries, 1000)) }

FullInit ==
    /\ lastStreams \in FullBlobs
    /\ savedStreams = <<>>
    /\ saveLog = NoSave
    /\ saves = 0
    /\ clickLog = [outcome |-> "none", contentId |-> <<>>, now |-> 0,
                   savedStream |-> [found |-> FALSE, value |-> NoSave.streamInfo],
                   playerUrl |-> <<>>, defaultPrevented |-> FALSE]

StoreFixed ==
    /\ lastStreams = MissingBlob
    /\ savedStreams = <<>>
    /\ saveLog = NoSave
    /\ saves = 0
    /\ clickLog = [outcome |-> "none", contentId |-> <<>>, now |-> 0,
                   savedStream |-> [found |-> FALSE, value |-> NoSave.streamInfo],
                   playerUrl |-> <<>>, defaultPrevented |-> FALSE]

StoreNext ==
    \E evalThrows \in BOOLEAN, contentId \in ContentIds \cup {<<>>},
       type \in {"", "movie", "series"}, hash \in Hashes, now \in Nows :
        saveCurrentStreamInfo(evalThrows, contentId, type, hash, now)

\* ------------------------------------------------------------------------
\* QUICK RESUME - the Continue Watching click
\* ------------------------------------------------------------------------
\* getSavedStreamInfo (lines 1972-1981): null when the blob does not parse
\* or has nothing truthy under the content id.  raised: the call ended in
\* an exception instead of a value (never, the parse is inside the try).
Null == [found |-> FALSE, value |-> NoSave.streamInfo, raised |-> FALSE]

\* the lookup without its try/catch
getSavedStreamInfoUncaught(blob, contentId) ==
    LET parsed == JSONparse(blob)
    IN  IF parsed.throws THEN [Null EXCEPT !.raised = TRUE]
        ELSE IF HasKey(parsed.entries, contentId)
        THEN [found |-> TRUE, value |-> Get(parsed.entries, contentId), raised |-> FALSE]
        ELSE Null

getSavedStreamInfo(blob, contentId) ==
    LET parsed == JSONparse(blob)
    IN  IF parsed.throws THEN Null
        ELSE IF HasKey(parsed.entries, contentId)
        THEN [found |-> TRUE, value |-> Get(parsed.entries, contentId), raised |-> FALSE]
        ELSE Null

\* Times are readings of Date.now() that fall on a whole second, written
\* in seconds: a reading r stands for r * 1000 ms, and differences and
\* comparisons of such readings are those of the millisecond values.
DayMs == 24 * 60 * 60

\* line 2020: 30 * 24 * 60 * 60 * 1000 ms
thirtyDaysMs == 30 * 24 * 60 * 60

TooOldFromThirty(now, timestamp) == now - timestamp >= thirtyDaysMs

\* line 2021: Date.now() - savedStream.timestamp > thirtyDaysMs
TooOld(now, timestamp) == now - timestamp > thirtyDaysMs

\* the route with the episode segment for every series
PlayerUrlAnySeries(savedStream) ==
    <<<<"player">>, savedStream.videoId, savedStream.streamHash>>
    \o (IF savedStream.type = "series"
        THEN << <<Digits(savedStream.season.n), ":", Digits(savedStream.episode.n)>> >>
        ELSE <<>>)

\* lines 2027-2032: the route the click navigates to, split at "/"
PlayerUrl(savedStream) ==
    <<<<"player">>, savedStream.videoId, savedStream.streamHash>>
    \o (IF savedStream.type = "series" /\ TruthyNum(savedStream.season)
                                       /\ TruthyNum(savedStream.episode)
        THEN << <<Digits(savedStream.season.n), ":", Digits(savedStream.episode.n)>> >>
        ELSE <<>>)

\* Date.now() at a click: the ages, as seen from the times of the saves
Ages == {0, 29 * DayMs, thirtyDaysMs, thirtyDaysMs + 1, 31 * DayMs}

ClickNows == {t + a : t \in Nows, a \in Ages}

\* one stored fingerprint for tt00, as a save leaves it
OneEntry(type, season, episode, t) ==
    Put(<<>>, OldId(0),
        StreamInfo(<<"hashA">>, <<"vid1">>, OldId(0), type, season, episode, t))

\* what the saves of earlier runs can have left when a click arrives
ClickBlobs ==
    {MissingBlob, CorruptBlob, JSONstringify(Ascending(MaxEntries))}
    \cup {JSONstringify(OneEntry("movie", NoNumber, NoNumber, t)) : t \in Nows}
    \cup {JSONstringify(OneEntry("series", Num(s), Num(2), t)) : s \in {0, 1}, t \in Nows}

NoClick == [outcome |-> "none", contentId |-> <<>>, now |-> 0, savedStream |-> Null,
            playerUrl |-> <<>>, defaultPrevented |-> FALSE]

\* handleContinueWatchingClick (lines 1984-2042).  inContinueRow: the click
\* is on a card of a row titled continue/watching; contentId: the id in the
\* card's /detail/ link, <<>> when there is no such link.
handleContinueWatchingClick(inContinueRow, contentId, now) ==
    LET savedStream == getSavedStreamInfo(lastStreams, contentId)
        passed(outcome) == [NoClick EXCEPT !.outcome = outcome, !.contentId = contentId,
                                           !.now = now, !.savedStream = savedStream]
    IN  /\ IF ~inContinueRow
           THEN clickLog' = [NoClick EXCEPT !.outcome = "not-continue-watching"] /\ route' = route
           ELSE IF contentId = <<>>
           THEN clickLog' = [NoClick EXCEPT !.outcome = "no-detail-link"] /\ route' = route
           ELSE IF ~savedStream.found
           THEN clickLog' = passed("no-saved-stream") /\ route' = route
           ELSE IF TooOld(now, savedStream.value.timestamp)
           THEN clickLog' = passed("too-old") /\ route' = route
           ELSE /\ clickLog' = [passed("navigated") EXCEPT
                                   !.playerUrl = PlayerUrl(savedStream.value),
                                   !.defaultPrevented = TRUE]
                /\ route' = "player"
        /\ UNCHANGED <<externalPlayer, externalPlayerPath, isHandlingExternalPlayer,
                       externalPlayerActive, video, sess, launches, navBacks, lastLog>>
        /\ UNCHANGED <<obsVars, probe, storeVars, scrollVars, cleanupVars>>

ResumeInit ==
    /\ lastStreams \in ClickBlobs
    /\ savedStreams = <<>>
    /\ saveLog = NoSave
    /\ saves = 0
    /\ clickLog = NoClick

ResumeNext ==
    \E inContinueRow \in BOOLEAN, contentId \in ContentIds \cup {<<>>}, now \in ClickNows :
        handleContinueWatchingClick(inContinueRow, contentId, now)

\* ------------------------------------------------------------------------
\* SCROLL STATE DETECTION
\* ------------------------------------------------------------------------
\* line 1819
SCROLL_DEBOUNCE == 50

\* the clock moves in steps of 10 ms
ClockSteps == {10}

NoTimeout == [armed |-> FALSE, due |-> 0]

DebounceElapsedStrict(now, last) == now - last > SCROLL_DEBOUNCE

DebounceElapsedAlways(now, last) == TRUE

\* line 1848: performance.now() - lastScrollTime >= SCROLL_DEBOUNCE
DebounceElapsed(now, last) == now - last >= SCROLL_DEBOUNCE

\* time passes; nothing says how late a timer or a frame may run
Tick ==
    /\ \E d \in ClockSteps : perfNow + d <= MaxClock /\ perfNow' = perfNow + d
    /\ UNCHANGED <<isScrolling, lastScrollTime, scrollTimeout, scrollRaf,
                   scrollingActive, scrollCalls>>
    /\ UNCHANGED notScrollVars

\* handleScroll (lines 1826-1857): a scroll, wheel or touchmove event
handleScroll ==
    /\ scrollCalls.inputs < MaxInputs
    /\ lastScrollTime' = perfNow
    /\ isScrolling' = TRUE
    /\ scrollingActive' = TRUE
    /\ unifiedObserver' = IF ~isScrolling THEN Paused(unifiedObserver) ELSE unifiedObserver
    /\ scrollTimeout' = [armed |-> TRUE, due |-> perfNow + SCROLL_DEBOUNCE]
    /\ scrollCalls' =
          [inputs   |-> scrollCalls.inputs + 1,
           pauses   |-> scrollCalls.pauses + (IF ~isScrolling THEN 1 ELSE 0),
           resumes  |-> scrollCalls.resumes,
           oneBurst |-> /\ scrollCalls.oneBurst
                        /\ (scrollCalls.inputs > 0 => perfNow - lastScrollTime < SCROLL_DEBOUNCE)]
    /\ UNCHANGED <<perfNow, scrollRaf>>
    /\ UNCHANGED <<observerHandlers, observerRafId, rafQueue, burst, frameLog>>
    /\ UNCHANGED <<icVars, probe, storeVars, clickLog, cleanupVars>>

\* the setTimeout callback (lines 1845-1856) comes due: the pending frame
\* request, if any, is replaced by a new one
ScrollTimeoutFires ==
    /\ scrollTimeout.armed
    /\ perfNow >= scrollTimeout.due
    /\ scrollTimeout' = NoTimeout
    /\ scrollRaf' = TRUE
    /\ UNCHANGED <<perfNow, isScrolling, lastScrollTime, scrollingActive, scrollCalls>>
    /\ UNCHANGED notScrollVars

\* the requestAnimationFrame callback (lines 1847-1855)
ScrollFrame ==
    /\ scrollRaf
    /\ scrollRaf' = FALSE
    /\ IF DebounceElapsed(perfNow, lastScrollTime)
       THEN /\ isScrolling' = FALSE
            /\ scrollingActive' = FALSE
            /\ unifiedObserver' = Resumed(unifiedObserver)
            /\ scrollCalls' = [scrollCalls EXCEPT !.resumes = @ + 1]
       ELSE UNCHANGED <<isScrolling, scrollingActive, unifiedObserver, scrollCalls>>
    /\ UNCHANGED <<perfNow, lastScrollTime, scrollTimeout>>
    /\ UNCHANGED <<observerHandlers, observerRafId, rafQueue, burst, frameLog>>
    /\ UNCHANGED <<icVars, probe, storeVars, clickLog, cleanupVars>>

\* setupScrollStateDetection (lines 1815-1818)
ScrollInit ==
    /\ perfNow = 0
    /\ isScrolling = FALSE
    /\ lastScrollTime = 0
    /\ scrollTimeout = NoTimeout
    /\ scrollRaf = FALSE
    /\ scrollingActive = FALSE
    /\ scrollCalls = [inputs |-> 0, pauses |-> 0, resumes |-> 0, oneBurst |-> TRUE]

\* the observer as the handlers registered at startup leave it
ObsRunning ==
    /\ observerHandlers \in {<<>>, <<[id |-> "title-bar", callback |-> "cb1", active |-> TRUE]>>}
    /\ unifiedObserver = IF observerHandlers = <<>> THEN "null" ELSE "observing"
    /\ observerRafId = 0
    /\ rafQueue = {}
    /\ burst = 0
    /\ frameLog = [dispatches |-> 0, calls |-> <<>>, errors |-> <<>>,
                   burst |-> 0, active |-> {}]

ScrollNext ==
    \/ Tick
    \/ handleScroll
    \/ ScrollTimeoutFires
    \/ ScrollFrame

\* ------------------------------------------------------------------------
\* EVENT LISTENER CLEANUP REGISTRY
\* ------------------------------------------------------------------------
Contexts == {"external-player-menu", "plugin-list"}

\* a registered callback is named by the number of its registration
CleanupIds == 1..MaxCleanups

NoCleanups == [has |-> FALSE, fns |-> <<>>]

\* (mutant) no try/catch: the first throwing callback ends the iteration
RECURSIVE RunCleanupsUncaught(_, _)
RunCleanupsUncaught(fns, throwers) ==
    IF fns = <<>> THEN [invoked |-> <<>>, errors |-> <<>>]
    ELSE IF Head(fns) \in throwers
         THEN [invoked |-> <<Head(fns)>>, errors |-> <<Head(fns)>>]
         ELSE LET rest == RunCleanupsUncaught(Tail(fns), throwers)
              IN  [invoked |-> <<Head(fns)>> \o rest.invoked, errors |-> rest.errors]

\* cleanups.forEach (lines 181-187): every callback is called, a throw is
\* caught and logged
RECURSIVE RunCleanups(_, _)
RunCleanups(fns, throwers) ==
    IF fns = <<>> THEN [invoked |-> <<>>, errors |-> <<>>]
    ELSE LET rest == RunCleanups(Tail(fns), throwers)
         IN  [invoked |-> <<Head(fns)>> \o rest.invoked,
              errors  |-> (IF Head(fns) \in throwers THEN <<Head(fns)>> ELSE <<>>)
                              \o rest.errors]

\* registerEventCleanup (lines 171-176)
registerEventCleanup(context) ==
    /\ registered < MaxCleanups
    /\ registered' = registered + 1
    /\ eventCleanupRegistry' =
          [eventCleanupRegistry EXCEPT ![context] =
              [has |-> TRUE, fns |-> Append(@.fns, registered + 1)]]
    /\ UNCHANGED cleanupLog
    /\ UNCHANGED notCleanupVars

\* runEventCleanups (lines 178-190); throwers: the callbacks that throw
runEventCleanups(context, throwers) ==
    /\ IF eventCleanupRegistry[context].has
       THEN LET ran == RunCleanups(eventCleanupRegistry[context].fns, throwers)
            IN  /\ cleanupLog' = [context |-> context, invoked |-> ran.invoked,
                                  errors |-> ran.errors]
                /\ eventCleanupRegistry' =
                      [eventCleanupRegistry EXCEPT ![context] = NoCleanups]
       ELSE /\ cleanupLog' = [context |-> context, invoked |-> <<>>, errors |-> <<>>]
            /\ UNCHANGED eventCleanupRegistry
    /\ UNCHANGED registered
    /\ UNCHANGED notCleanupVars

CleanupInit ==
    /\ eventCleanupRegistry = [c \in Contexts |-> NoCleanups]
    /\ cleanupLog = [context |-> "", invoked |-> <<>>, errors |-> <<>>]
    /\ registered = 0

CleanupNext ==
    \/ \E c \in Contexts : registerEventCleanup(c)
    \/ \E c \in Contexts, throwers \in SUBSET CleanupIds : runEventCleanups(c, throwers)

\* ------------------------------------------------------------------------
\* Specifications
\* ------------------------------------------------------------------------
ObsSpecInit == ObsInit /\ IcFixed /\ ProbeFixed /\ StoreFixed /\ ScrollInit /\ CleanupInit

ObsSpec == ObsSpecInit /\ [][ObsNext]_vars

IcSpecInit == ObsInit /\ IcInit /\ ProbeFixed /\ StoreFixed /\ ScrollInit /\ CleanupInit

IcSpec == IcSpecInit /\ [][IcNext]_vars

ProbeSpecInit == ObsInit /\ IcFixed /\ ProbeInit /\ StoreFixed /\ ScrollInit /\ CleanupInit

ProbeSpec == ProbeSpecInit /\ [][ProbeNext]_vars

StoreSpecInit == ObsInit /\ IcFixed /\ ProbeFixed /\ StoreInit /\ ScrollInit /\ CleanupInit

StoreSpec == StoreSpecInit /\ [][StoreNext]_vars

FullSpecInit == ObsInit /\ IcFixed /\ ProbeFixed /\ FullInit /\ ScrollInit /\ CleanupInit

\* saves onto a map that is at the cap
FullSpec == FullSpecInit /\ [][StoreNext]_vars

ResumeSpecInit == ObsInit /\ IcFixed /\ ProbeFixed /\ ResumeInit /\ ScrollInit /\ CleanupInit

ResumeSpec == ResumeSpecInit /\ [][ResumeNext]_vars

ScrollSpecInit == ObsRunning /\ IcFixed /\ ProbeFixed /\ StoreFixed /\ ScrollInit /\ CleanupInit

ScrollSpec == ScrollSpecInit /\ [][ScrollNext]_vars

CleanupSpecInit == ObsInit /\ IcFixed /\ ProbeFixed /\ StoreFixed /\ ScrollInit /\ CleanupInit

CleanupSpec == CleanupSpecInit /\ [][CleanupNext]_vars

LocatorSpecInit == ObsInit /\ LocatorInit /\ ProbeFixed /\ StoreFixed /\ ScrollInit /\ CleanupInit

LocatorSpec == LocatorSpecInit /\ [][LocatorNext]_vars

\* the scroll monitor together with the callers of the observer system
MonitorNext ==
    \/ Tick
    \/ handleScroll
    \/ ScrollTimeoutFires
    \/ ScrollFrame
    \/ \E id \in HandlerIds, callback \in Callbacks : registerObserverHandler(id, callback)
    \/ \E id \in HandlerIds : unregisterObserverHandler(id)
    \/ \E id \in HandlerIds, a \in BOOLEAN : setObserverHandlerActive(id, a)

MonitorSpecInit == ObsInit /\ IcFixed /\ ProbeFixed /\ StoreFixed /\ ScrollInit /\ CleanupInit

MonitorSpec == MonitorSpecInit /\ [][MonitorNext]_vars

\* time passes, and a timer that is due and a requested frame do run
ScrollFairSpec ==
    /\ ScrollSpec
    /\ WF_vars(Tick)
    /\ WF_vars(ScrollTimeoutFires)
    /\ WF_vars(ScrollFrame)

\* the same, with timers and promise resolutions always coming due
LocatorFairSpec ==
    /\ LocatorSpec
    /\ \A s \in Slots : /\ WF_vars(Attempt(s))
                        /\ WF_vars(SleepDone(s))
                        /\ WF_vars(CooldownEnd(s))

\* timers and promise resolutions of a running invocation always come due
IcFairSpec ==
    /\ IcSpec
    /\ \A s \in Slots : /\ WF_vars(Attempt(s))
                        /\ WF_vars(SleepDone(s))
                        /\ WF_vars(CooldownEnd(s))

\* ------------------------------------------------------------------------
\* Properties of the interception
\* ------------------------------------------------------------------------
\* the step in which invocation s sends its launch request
LaunchStep(s) == sess[s].pc = "eval" /\ sess'[s].pc = "cooldown"

\* the step in which invocation s gives up after its last attempt
ExhaustStep(s) == sess[s].pc = "sleep" /\ sess'[s].pc = "idle"

\* C1: invoking handleExternalPlayerInterception while the busy flag is set
\* changes nothing (busy, the UI marker, the video element, the running
\* invocation, the launch requests sent), so two interception sessions never
\* overlap.
C1_BusyEntryIsNoop ==
    /\ [](Cardinality({s \in Slots : InFlight(s)}) <= 1)
    /\ [][HashChange("player") /\ isHandlingExternalPlayer
            => UNCHANGED <<isHandlingExternalPlayer, externalPlayerActive, video,
                           sess, launches, navBacks>>]_vars

C1_Witness ==
    /\ lastLog = "already-handling"
    /\ sess[1].pc = "cooldown"
    /\ Len(launches[1]) = 1

\* C2 (as claimed): whenever busy is true it eventually becomes false and the
\* UI marker is removed.
C2_BusyEventuallyCleared ==
    isHandlingExternalPlayer ~> (~isHandlingExternalPlayer /\ ~externalPlayerActive)

\* C2 (finite form of the same claim): busy is only ever true while an
\* invocation that will clear it is in flight.
C2_BusyHasOwner ==
    isHandlingExternalPlayer => \E s \in Slots : InFlight(s)

\* C3: when no attempt within the budget of 20 yields an address, the
\* invocation ends with busy cleared and the marker removed, without a
\* launch request and without history.back().
C3_ExhaustionReturnsToIdle ==
    [][\A s \in Slots :
          ExhaustStep(s) =>
              /\ sess[s].attempt + 1 = MaxAttempts
              /\ ~TruthyStr(sess[s].streamUrl)
              /\ ~isHandlingExternalPlayer'
              /\ ~externalPlayerActive'
              /\ launches'[s] = <<>>
              /\ navBacks'[s] = 0]_vars

C3_Witness ==
    /\ lastLog = "failed"
    /\ ~isHandlingExternalPlayer
    /\ ~externalPlayerActive
    /\ launches[1] = <<>>
    /\ navBacks[1] = 0

\* C4: a session whose locator finds address u on attempt k (1 <= k <= 20)
\* with player p sends exactly one launch request, with player p, url u, the
\* derived title, and the stored custom path (absent when it is empty).
C4_OneLaunchPerSession ==
    /\ [](\A s \in Slots :
            /\ sess[s].pc \in {"eval", "sleep"} => launches[s] = <<>>
            /\ Len(launches[s]) <= 1
            /\ sess[s].pc = "cooldown" =>
                  /\ Len(launches[s]) = 1
                  /\ sess[s].attempt + 1 \in 1..MaxAttempts
                  /\ sess[s].player \in {"vlc", "mpchc"}
                  /\ launches[s][1].player = sess[s].player
                  /\ launches[s][1].url = sess[s].streamUrl
                  /\ StartsWithHttp(launches[s][1].url)
                  /\ launches[s][1].title = sess[s].title
                  /\ launches[s][1].customPath # "")
    /\ [][\A s \in Slots :
            LaunchStep(s) =>
                /\ launches'[s][1].customPath =
                      (IF externalPlayerPath = "" THEN "undefined"
                                                  ELSE externalPlayerPath)
                /\ \E ps \in SessionStates, videoSrc \in VideoSrcs :
                      /\ launches'[s][1].url = LocateUrl(ps, videoSrc)
                      /\ launches'[s][1].title = BuildTitle(ps)]_vars

C4_Witness ==
    /\ sess[1].pc = "cooldown"
    /\ sess[1].attempt = 2
    /\ launches[1] = <<[player |-> "vlc",
                        url |-> Str("https", "://x/stream.m3u8"),
                        title |-> <<"Show", " S", "1", "E", "2">>,
                        customPath |-> "undefined"]>>
    /\ externalPlayer = "mpchc"

\* C5 (as claimed): name + " S<season>E<episode>" when name, season and
\* episode are all known, the plain name when only the name is known, and
\* "Stream" when no content name is available.
C5_TitleAsClaimed ==
    (probe.done /\ TruthyStr(probe.streamUrl)) =>
        probe.title =
            IF TruthyStr(probe.ps.name)
            THEN IF probe.ps.season.known /\ probe.ps.episode.known
                 THEN <<probe.ps.name.rest, " S", Digits(probe.ps.season.n),
                        "E", Digits(probe.ps.episode.n)>>
                 ELSE <<probe.ps.name.rest>>
            ELSE <<"Stream">>

\* C5 (amended): name + " S<season>E<episode>" when the name is non-empty and
\* season and episode are both known and non-zero; the plain name when the
\* name is non-empty and a season or episode is missing or 0; without a
\* content name the snapshot's own title when it has one, and otherwise
\* "Stremio Stream".
C5_Title ==
    (probe.done /\ TruthyStr(probe.streamUrl)) =>
        LET ps       == probe.ps
            hasName  == ps.name.kind = "string" /\ ps.name.rest # ""
            numbered == /\ ps.season.known /\ ps.season.n # 0
                        /\ ps.episode.known /\ ps.episode.n # 0
            hasTitle == ps.title.kind = "string" /\ ps.title.rest # ""
        IN  /\ (hasName /\ numbered) =>
                  probe.title = <<ps.name.rest, " S", Digits(ps.season.n),
                                  "E", Digits(ps.episode.n)>>
            /\ (hasName /\ ~numbered) => probe.title = <<ps.name.rest>>
            /\ (~hasName /\ hasTitle) => probe.title = <<ps.title.rest>>
            /\ (~hasName /\ ~hasTitle) => probe.title = <<"Stremio Stream">>

C5_Witness ==
    /\ probe.done
    /\ probe.title = <<"Show", " S", "1", "E", "2">>
    /\ probe.streamUrl = Str("http", "://b/deeplink")

\* ------------------------------------------------------------------------
\* Properties of the unified observer
\* ------------------------------------------------------------------------
TimesCalled(calls, id) == Cardinality({i \in 1..Len(calls) : calls[i].id = id})

\* sanity: observerRafId names exactly the one callback the browser holds
RafIdConsistent ==
    /\ Cardinality(rafQueue) <= 1
    /\ (observerRafId # 0) <=> (rafQueue # {})
    /\ \A c \in rafQueue : c.id = observerRafId

\* C6: after any sequence of register/unregister calls the underlying
\* watcher exists exactly when at least one handler is registered; the first
\* register (also the first one after the last handler was unregistered)
\* starts it observing, and unregistering the last handler stops it.
C6_WatcherIffHandlers ==
    /\ [](unifiedObserver # "null" <=> Len(observerHandlers) > 0)
    /\ [][(\E id \in HandlerIds, callback \in Callbacks : registerObserverHandler(id, callback))
              /\ Len(observerHandlers) = 0
            => unifiedObserver' = "observing"]_vars
    /\ [][(\E id \in HandlerIds : unregisterObserverHandler(id))
              /\ Len(observerHandlers') = 0
            => unifiedObserver' = "null"]_vars

C6_Witness ==
    /\ Len(observerHandlers) = 1
    /\ unifiedObserver = "observing"
    /\ frameLog.dispatches = 1

\* C7: a burst of N >= 1 batches delivered before the next paint frame
\* produces exactly one dispatch in that frame, and in it every handler that
\* is active at dispatch time is invoked exactly once (and no other handler).
C7_OneDispatchPerFrame ==
    frameLog.burst >= 1 =>
        /\ frameLog.dispatches = 1
        /\ \A id \in frameLog.active : TimesCalled(frameLog.calls, id) = 1
        /\ \A i \in 1..Len(frameLog.calls) : frameLog.calls[i].id \in frameLog.active

C7_Witness ==
    /\ frameLog.burst >= 2
    /\ frameLog.dispatches = 1
    /\ Len(frameLog.calls) >= 2

\* C8: within one dispatch a handler that throws is caught: every other
\* active handler is still invoked with the batch, and the dispatch changes
\* neither the registry nor the watcher.
C8_HandlerFaultIsolated ==
    /\ [](frameLog.dispatches = 1 =>
            \A id \in frameLog.active : TimesCalled(frameLog.calls, id) = 1)
    /\ [][AnimationFrame => UNCHANGED <<observerHandlers, unifiedObserver>>]_vars

C8_Witness ==
    /\ frameLog.dispatches = 1
    /\ Len(frameLog.errors) >= 1
    /\ Len(frameLog.calls) = 2
    /\ frameLog.calls[1].id = frameLog.errors[1]

\* ------------------------------------------------------------------------
\* Properties of the quick-resume store
\* ------------------------------------------------------------------------
Keys(es) == {es[i].key : i \in 1..Len(es)}

\* C9: after every completed save the persisted map holds at most 100
\* entries; when the save built a map of more than 100, exactly 100 of its
\* entries are kept and every entry removed has a timestamp no larger than
\* that of every entry kept; otherwise the map is persisted as built.
C9_CapEvictsOldest ==
    /\ Len(lastStreams.entries) <= MaxEntries
    /\ saveLog.outcome = "saved" =>
          LET kept    == Range(lastStreams.entries)
              removed == Range(savedStreams) \ kept
          IN  IF Len(savedStreams) > MaxEntries
              THEN /\ lastStreams.kind = "object"
                   /\ Len(lastStreams.entries) = MaxEntries
                   /\ Cardinality(Keys(lastStreams.entries)) = MaxEntries
                   /\ kept \subseteq Range(savedStreams)
                   /\ \A r \in removed : \A k \in kept :
                         r.value.timestamp <= k.value.timestamp
              ELSE lastStreams = JSONstringify(savedStreams)

\* the 101st distinct save onto 100 stored entries: 100 remain, the new one
\* among them, and the entry with the oldest timestamp is gone
C9_Witness ==
    /\ saveLog.outcome = "saved"
    /\ Len(savedStreams) = MaxEntries + 1
    /\ Len(lastStreams.entries) = MaxEntries
    /\ HasKey(lastStreams.entries, NewId)
    /\ HasKey(savedStreams, OldId(0))
    /\ ~HasKey(lastStreams.entries, OldId(0))
    /\ \A i \in 1..Len(savedStreams) :
          savedStreams[i].value.timestamp >= Get(savedStreams, OldId(0)).timestamp

SaveStep == saves' = saves + 1 /\ saveLog'.outcome = "saved"

\* the keys whose value the save step changed or added
KeysWritten ==
    LET before == JSONparse(lastStreams).entries
    IN  {k \in Keys(savedStreams') :
            ~HasKey(before, k) \/ Get(before, k) # Get(savedStreams', k)}

\* C10: a save for a series with content id c and route episode id e puts
\* the same fingerprint under "c:e" and under "c" in the map it builds; a
\* save for a movie puts it under "c" and writes no other key; and when the
\* fingerprint is newer than every entry stored before, the keys written are
\* in the persisted map with that fingerprint.
C10_KeysOfASave ==
    [][SaveStep =>
        LET info   == saveLog'.streamInfo
            c      == info.contentId
            e      == saveLog'.episodeId
            before == JSONparse(lastStreams).entries
            newest == \A i \in 1..Len(before) :
                         before[i].value.timestamp < info.timestamp
        IN  /\ (info.type = "series" /\ e # <<>>) =>
                  /\ saveLog'.storageKey = c \o <<":">> \o e
                  /\ HasKey(savedStreams', c \o <<":">> \o e)
                  /\ Get(savedStreams', c \o <<":">> \o e) = info
                  /\ HasKey(savedStreams', c)
                  /\ Get(savedStreams', c) = info
            /\ info.type = "movie" =>
                  /\ saveLog'.storageKey = c
                  /\ HasKey(savedStreams', c)
                  /\ Get(savedStreams', c) = info
                  /\ KeysWritten \subseteq {c}
            /\ newest =>
                  \A k \in KeysWritten :
                     /\ HasKey(lastStreams'.entries, k)
                     /\ Get(lastStreams'.entries, k) = info
    ]_vars

\* a series save of tt100 on the route of episode ep2, stored under both keys
C10_Witness ==
    /\ saveLog.outcome = "saved"
    /\ saveLog.streamInfo.type = "series"
    /\ saveLog.streamInfo.contentId = NewId
    /\ saveLog.episodeId = <<"ep2">>
    /\ HasKey(lastStreams.entries, NewId \o <<":", "ep2">>)
    /\ HasKey(lastStreams.entries, NewId)
    /\ Get(lastStreams.entries, NewId \o <<":", "ep2">>) = Get(lastStreams.entries, NewId)

\* a movie save of tt100: stored under the bare id, nothing under an episode key
C10_WitnessMovie ==
    /\ saveLog.outcome = "saved"
    /\ saveLog.streamInfo.type = "movie"
    /\ saveLog.streamInfo.contentId = NewId
    /\ HasKey(lastStreams.entries, NewId)
    /\ ~HasKey(lastStreams.entries, NewId \o <<":", "ep2">>)

\* ------------------------------------------------------------------------
\* Properties of the Continue Watching click
\* ------------------------------------------------------------------------
ClickAge == clickLog.now - clickLog.savedStream.value.timestamp

\* C11: a click that finds a saved fingerprint falls through to normal
\* navigation (nothing prevented, no route set) exactly when now minus the
\* fingerprint's timestamp is greater than 30 days, and otherwise navigates
\* to the player route; 31 days old is rejected, 29 days old is accepted.
C11_RejectedIffOlderThan30Days ==
    clickLog.savedStream.found =>
        /\ clickLog.outcome \in {"too-old", "navigated"}
        /\ clickLog.outcome = "too-old" <=> ClickAge > 30 * DayMs
        /\ clickLog.outcome = "too-old" =>
              ~clickLog.defaultPrevented /\ clickLog.playerUrl = <<>>
        /\ clickLog.outcome = "navigated" =>
              clickLog.defaultPrevented /\ clickLog.playerUrl # <<>> /\ route = "player"
        /\ ClickAge = 31 * DayMs => clickLog.outcome = "too-old"
        /\ ClickAge = 29 * DayMs => clickLog.outcome = "navigated"

\* a fingerprint 31 days old was found and rejected
C11_Witness ==
    /\ clickLog.savedStream.found
    /\ ClickAge = 31 * DayMs
    /\ clickLog.outcome = "too-old"

\* a fingerprint 29 days old was found and used
C11_WitnessAccepted ==
    /\ clickLog.savedStream.found
    /\ ClickAge = 29 * DayMs
    /\ clickLog.outcome = "navigated"

\* ------------------------------------------------------------------------
\* Properties of scroll state detection
\* ------------------------------------------------------------------------
PauseStep == scrollCalls'.pauses = scrollCalls.pauses + 1

ResumeStep == scrollCalls'.resumes = scrollCalls.resumes + 1

Locating(s) == sess[s].pc \in {"eval", "sleep"}

\* what is left of the loop: attempts not yet started, twice, and one less
\* while sleeping
LoopVariant(s) ==
    2 * (MaxAttempts - sess[s].attempt) - (IF sess[s].pc = "sleep" THEN 1 ELSE 0)

\* C13: when the awaited answers and timers come due, an invocation that is
\* locating leaves the loop, to the cooldown or to Idle; it makes attempts 1
\* to 20 only; every step it takes inside the loop brings the end of the
\* loop nearer; a failed attempt, thrown or not, is followed by the wait and
\* then by the next attempt, or after the 20th by the exhaustion exit; an
\* attempt that finds an address leaves the loop at once and the invocation
\* probes no more.
C13_BoundedRetry ==
    /\ \A s \in Slots : Locating(s) ~> ~Locating(s)
    /\ [](\A s \in Slots : sess[s].attempt \in 0..(MaxAttempts - 1))
    /\ [][\A s \in Slots :
            /\ (Locating(s) /\ Locating(s)' /\ sess'[s] # sess[s]) =>
                  LoopVariant(s)' < LoopVariant(s)
            /\ (sess[s].pc = "eval" /\ sess'[s] # sess[s]) =>
                  /\ sess'[s].pc \in {"sleep", "cooldown"}
                  /\ sess'[s].attempt = sess[s].attempt
                  /\ (sess'[s].pc = "cooldown" <=> Len(launches'[s]) = Len(launches[s]) + 1)
                  /\ (lastLog' = "attempt-error" => sess'[s].pc = "sleep")
                  /\ isHandlingExternalPlayer' = isHandlingExternalPlayer
            /\ (sess[s].pc = "sleep" /\ sess'[s] # sess[s]) =>
                  IF sess[s].attempt + 1 < 20
                  THEN sess'[s].pc = "eval" /\ sess'[s].attempt = sess[s].attempt + 1
                  ELSE sess'[s].pc = "idle" /\ Len(launches'[s]) = 0
            /\ (sess[s].pc = "cooldown") => sess'[s].pc \in {"cooldown", "idle"}
       ]_vars

\* the 20th attempt threw, and the invocation is in its last wait
C13_Witness ==
    \E s \in Slots :
        /\ sess[s].pc = "sleep"
        /\ sess[s].attempt = 19
        /\ lastLog = "attempt-error"

\* ------------------------------------------------------------------------
\* Properties of the cleanup registry
\* ------------------------------------------------------------------------
\* C14: runEventCleanups(context) calls the callbacks registered for the
\* context since its last flush, each once and in registration order,
\* whichever of them throw, and logs the ones that threw; afterwards the
\* context is gone from the registry, so that a flush of an absent context
\* calls nothing; the lists of the other contexts are left as they were
\* and none of their callbacks is called.
C14_FlushRunsAllOnce ==
    [][\A c \in Contexts, throwers \in SUBSET CleanupIds :
        runEventCleanups(c, throwers) =>
            LET fns == eventCleanupRegistry[c].fns
            IN  /\ cleanupLog'.invoked = fns
                /\ \A i \in 1..Len(fns) : \A j \in 1..Len(fns) :
                      i < j => fns[i] < fns[j]
                /\ Range(cleanupLog'.errors) = Range(fns) \cap throwers
                /\ ~eventCleanupRegistry'[c].has
                /\ eventCleanupRegistry'[c].fns = <<>>
                /\ (~eventCleanupRegistry[c].has => cleanupLog'.invoked = <<>>)
                /\ \A d \in Contexts \ {c} :
                      /\ eventCleanupRegistry'[d] = eventCleanupRegistry[d]
                      /\ Range(eventCleanupRegistry[d].fns)
                             \cap Range(cleanupLog'.invoked) = {}
    ]_vars

\* a flush of two callbacks whose first threw, with another context
\* still holding its callback
C14_Witness ==
    /\ cleanupLog.context = "external-player-menu"
    /\ Len(cleanupLog.invoked) = 2
    /\ cleanupLog.errors = <<cleanupLog.invoked[1]>>
    /\ ~eventCleanupRegistry["external-player-menu"].has
    /\ eventCleanupRegistry["plugin-list"].has

\* ------------------------------------------------------------------------
\* Properties of pausing the observer
\* ------------------------------------------------------------------------
\* a paint frame that runs a pending dispatch and calls at least one handler
DispatchBegins ==
    /\ rafQueue # {}
    /\ rafQueue' = {}
    /\ Len(frameLog'.calls) > 0

\* C15 (as claimed): between a pauseAllObservers() and the next
\* resumeAllObservers(), that is while the observer is disconnected, no
\* dispatch to handlers begins.
C15_NoDispatchWhilePaused ==
    [][unifiedObserver = "disconnected" => ~DispatchBegins]_vars

\* what does hold: while the observer is disconnected no new batch is
\* delivered and no new frame is requested, so at most the dispatch that was
\* pending at the pause still runs.
C15_NoNewFrameWhilePaused ==
    [][unifiedObserver = "disconnected" =>
          /\ burst' <= burst
          /\ rafQueue' \subseteq rafQueue]_vars

\* ------------------------------------------------------------------------
\* Properties of the start of a session
\* ------------------------------------------------------------------------
\* a navigation into the playback route that finds the machine Idle
IdleNavigation == ~isHandlingExternalPlayer /\ HashChange("player")

\* an invocation went from idle to its first attempt, busy and the marker
\* are set, and the rendered video is paused and muted
SessionStarted ==
    /\ \E s \in Slots : sess[s].pc = "idle" /\ sess'[s].pc = "eval"
                          /\ sess'[s].player = externalPlayer
    /\ isHandlingExternalPlayer'
    /\ externalPlayerActive'
    /\ video'.paused /\ video'.muted

\* nothing was started: busy stays false, the marker is absent, no
\* invocation exists that could send a launch request
NothingStarted ==
    /\ ~isHandlingExternalPlayer'
    /\ ~externalPlayerActive'
    /\ sess' = sess
    /\ launches' = launches
    /\ \A s \in Slots : ~InFlight(s)'

C16_WitnessStarted ==
    /\ externalPlayer = "vlc"
    /\ route = "player"
    /\ lastLog = "intercepting"
    /\ isHandlingExternalPlayer
    /\ \E s \in Slots : sess[s].pc = "eval" /\ sess[s].attempt = 0

\* ------------------------------------------------------------------------
\* Properties of the cooldown
\* ------------------------------------------------------------------------
CooldownEndStep(s) == sess[s].pc = "cooldown" /\ sess'[s].pc # "cooldown"

\* C17: from the launch request to the end of the 10 s wait busy is true
\* and the marker is applied and the pause loop runs; the step that ends the
\* wait stops the pause loop, clears busy, removes the marker and calls
\* history.back() once, for an invocation that has sent its launch request;
\* history.back() is called at no other step, so never before the launch and
\* never for an invocation that did not launch.
C17_CooldownThenBack ==
    /\ [](\A s \in Slots :
            /\ sess[s].pc = "cooldown" =>
                  /\ isHandlingExternalPlayer
                  /\ externalPlayerActive
                  /\ sess[s].keepPaused
                  /\ Len(launches[s]) = 1
                  /\ navBacks[s] = 0
            /\ sess[s].keepPaused => sess[s].pc = "cooldown"
            /\ navBacks[s] <= 1
            /\ navBacks[s] = 1 => Len(launches[s]) = 1)
    /\ [][\A s \in Slots :
            /\ CooldownEndStep(s) =>
                  /\ sess'[s].pc = "idle"
                  /\ ~sess'[s].keepPaused
                  /\ ~isHandlingExternalPlayer'
                  /\ ~externalPlayerActive'
                  /\ navBacks'[s] = 1
                  /\ launches'[s] = launches[s]
            /\ navBacks'[s] > navBacks[s] => CooldownEndStep(s)
            /\ LaunchStep(s) => sess'[s].pc = "cooldown" /\ navBacks'[s] = 0
            /\ ExhaustStep(s) => navBacks'[s] = 0 /\ launches'[s] = <<>>
       ]_vars

\* a cooldown has ended: one launch request, one history.back(), Idle again
C17_Witness ==
    \E s \in Slots :
        /\ lastLog = "navigating-back"
        /\ sess[s].pc = "idle"
        /\ Len(launches[s]) = 1
        /\ navBacks[s] = 1
        /\ ~isHandlingExternalPlayer
        /\ ~externalPlayerActive

\* ------------------------------------------------------------------------
\* Properties of the patched play()
\* ------------------------------------------------------------------------
\* C18 (as claimed): once the locator has given up and the machine is Idle
\* again, a play() call of the host on the playback route reaches the
\* original play method: the video plays.
C18_PlayPassesAfterExhaustion ==
    [][(/\ lastLog = "failed"
        /\ ~isHandlingExternalPlayer
        /\ \A s \in Slots : ~InFlight(s)
        /\ route = "player"
        /\ VideoPlay) => ~video'.paused]_vars

\* what does hold: whether play() is passed on depends on the stored
\* setting and the route only, not on the busy flag
C18_PlayBlockedBySettingAndRoute ==
    [][VideoPlay =>
         IF externalPlayer \notin {"null", "", BUILTIN, "disabled", "m3u"} /\ route = "player"
         THEN video'.paused /\ video'.muted
         ELSE ~video'.paused]_vars

\* ------------------------------------------------------------------------
\* Properties of a corrupt or missing persisted map
\* ------------------------------------------------------------------------
\* C19 (as claimed): a save that has a content id and a player route and
\* finds a corrupt blob completes as if the map were empty: afterwards the
\* persisted map holds the new fingerprint under its storage key, and for a
\* series under the content id as well.
C19_SaveOverCorruptBlob ==
    [][\A contentId \in ContentIds, type \in {"", "movie", "series"},
          hash \in Hashes, now \in Nows :
          (/\ lastStreams.kind = "corrupt"
           /\ PlayerMatch(hash).matched
           /\ saveCurrentStreamInfo(FALSE, contentId, type, hash, now)) =>
              LET key == StorageKey(ContentType(type), contentId, PlayerMatch(hash).episodeId)
              IN  /\ saveLog'.outcome = "saved"
                  /\ lastStreams'.kind = "object"
                  /\ HasKey(lastStreams'.entries, key)
                  /\ Get(lastStreams'.entries, key).timestamp = now
                  /\ (ContentType(type) = "series" => HasKey(lastStreams'.entries, contentId))
    ]_vars

\* what does hold: a save that finds a corrupt blob ends in its catch
\* block and leaves the blob as it was; a missing blob is read as the empty
\* map and the save completes.
C19_CorruptBlobIsKept ==
    [][\A contentId \in ContentIds, type \in {"", "movie", "series"},
          hash \in Hashes, now \in Nows :
          (/\ PlayerMatch(hash).matched
           /\ saveCurrentStreamInfo(FALSE, contentId, type, hash, now)) =>
              /\ (lastStreams.kind = "corrupt" =>
                     saveLog'.outcome = "error" /\ lastStreams' = lastStreams)
              /\ (lastStreams.kind = "missing" =>
                     /\ saveLog'.outcome = "saved"
                     /\ Len(lastStreams'.entries) \in {1, 2}
                     /\ \A k \in Keys(lastStreams'.entries) :
                           Get(lastStreams'.entries, k).timestamp = now)
    ]_vars

\* C20: when the persisted blob is missing or corrupt, the lookup returns
\* null for every content id and never raises, a click that reaches the
\* lookup falls through to normal navigation, and no click changes the
\* persisted blob.
C20_LookupOfBadBlobIsNull ==
    /\ [](lastStreams.kind \in {"missing", "corrupt"} =>
            \A contentId \in ContentIds \cup {<<>>} :
                getSavedStreamInfo(lastStreams, contentId) = Null)
    /\ [](clickLog.savedStream.raised = FALSE)
    /\ [][clickLog' # clickLog =>
            /\ lastStreams' = lastStreams
            /\ savedStreams' = savedStreams
            /\ ((lastStreams.kind \in {"missing", "corrupt"}
                    /\ clickLog'.outcome \notin {"not-continue-watching", "no-detail-link"}) =>
                  /\ clickLog'.outcome = "no-saved-stream"
                  /\ clickLog'.savedStream = Null
                  /\ clickLog'.defaultPrevented = FALSE
                  /\ route' = route)
       ]_vars

\* a click on a Continue Watching card looked up a corrupt blob
C20_Witness ==
    /\ lastStreams = CorruptBlob
    /\ clickLog.outcome = "no-saved-stream"
    /\ clickLog.contentId # <<>>

\* the same over a missing blob
C20_WitnessMissing ==
    /\ lastStreams = MissingBlob
    /\ clickLog.outcome = "no-saved-stream"
    /\ clickLog.contentId # <<>>

\* ------------------------------------------------------------------------
\* Properties of one probe of the locator
\* ------------------------------------------------------------------------
\* a string that begins with http
Qualifies(x) == x.kind = "string" /\ StartsWithHttp(x)

\* C21: a probe returns the first qualifying address in the order primary
\* ready-stream address, alternate deep-link address, stream.url,
\* stream.externalUrl; a field is used only when every field before it is
\* absent or does not qualify.
C21_FirstQualifyingInPriorityOrder ==
    probe.done =>
        LET ps == probe.ps
        IN  /\ (Qualifies(ps.contentUrl) => probe.streamUrl = ps.contentUrl)
            /\ (~Qualifies(ps.contentUrl) /\ Qualifies(ps.deepLink) =>
                    probe.streamUrl = ps.deepLink)
            /\ (~Qualifies(ps.contentUrl) /\ ~Qualifies(ps.deepLink) /\ Qualifies(ps.url) =>
                    probe.streamUrl = ps.url)
            /\ (~Qualifies(ps.contentUrl) /\ ~Qualifies(ps.deepLink) /\ ~Qualifies(ps.url)
                  /\ Qualifies(ps.externalUrl) =>
                    probe.streamUrl = ps.externalUrl)

\* a probe passed over a primary address of another scheme and a deep link
\* that is not a string, and took stream.url although stream.externalUrl
\* qualifies too
C21_Witness ==
    /\ probe.done
    /\ probe.ps.contentUrl.kind = "string" /\ ~Qualifies(probe.ps.contentUrl)
    /\ probe.ps.deepLink = NotAString
    /\ Qualifies(probe.ps.url) /\ Qualifies(probe.ps.externalUrl)
    /\ probe.streamUrl = probe.ps.url
    /\ probe.streamUrl # probe.ps.externalUrl

\* none of the four state fields of a snapshot qualifies
NoFieldQualifies(ps) ==
    \A i \in 1..Len(possibleUrls(ps)) : ~Qualifies(possibleUrls(ps)[i])

\* C22 (as claimed): in every attempt in which no state field yields a
\* qualifying address, whatever the state queries returned (null
\* included), a video element source that begins with http is returned as
\* the address of the session.
C22_VideoSourceWhateverTheState ==
    [][\A s \in Slots, answer \in Answers, videoSrc \in VideoSrcs :
          (/\ sess[s].pc = "eval"
           /\ answer.kind # "threw"
           /\ (answer.kind = "state" => NoFieldQualifies(answer.ps))
           /\ Qualifies(videoSrc)
           /\ AttemptOn(s, answer, videoSrc)) =>
              /\ sess'[s].pc = "cooldown"
              /\ sess'[s].streamUrl = videoSrc
      ]_vars

\* what does hold: the video element is looked at when, and only when, the
\* queries returned a snapshot none of whose fields qualifies
C22_VideoSourceWhenStatePresent ==
    [][\A s \in Slots, answer \in Answers, videoSrc \in VideoSrcs :
          (/\ sess[s].pc = "eval"
           /\ Qualifies(videoSrc)
           /\ AttemptOn(s, answer, videoSrc)) =>
              /\ (answer.kind = "state" /\ NoFieldQualifies(answer.ps) =>
                    sess'[s].pc = "cooldown" /\ sess'[s].streamUrl = videoSrc)
              /\ (answer.kind = "null" =>
                    sess'[s].pc = "sleep" /\ launches' = launches)
      ]_vars

\* ------------------------------------------------------------------------
\* Properties of the scroll monitor and the watcher
\* ------------------------------------------------------------------------
\* the monitor goes from Active to Idle
BackToIdleStep == isScrolling /\ ~isScrolling'

\* C23: once input stops the monitor returns to Idle: after the n-th input,
\* unless another input follows, the monitor is eventually Idle (for every
\* input whose debounce window ends within the time modelled); the step
\* to Idle removes the performance-mode markers and calls
\* resumeAllObservers, and in Idle no marker is left.
C23_EventuallyIdle ==
    /\ \A n \in 1..MaxInputs :
          (/\ isScrolling
           /\ scrollCalls.inputs = n
           /\ lastScrollTime + SCROLL_DEBOUNCE <= MaxClock)
             ~> (~isScrolling \/ scrollCalls.inputs > n)
    /\ [][BackToIdleStep =>
             /\ ~scrollingActive'
             /\ scrollCalls'.resumes = scrollCalls.resumes + 1
             /\ unifiedObserver' = Resumed(unifiedObserver)]_vars
    /\ [](~isScrolling => ~scrollingActive)

\* the monitor went Active and back to Idle twice, and nothing is pending
C23_Witness ==
    /\ ~isScrolling
    /\ ~scrollingActive
    /\ scrollCalls.pauses = 2
    /\ scrollCalls.resumes = 2
    /\ ~scrollTimeout.armed
    /\ ~scrollRaf

\* C24 (as claimed): while the scroll monitor is Active the watcher is not
\* observing, whatever register, unregister and setActive calls come in
\* between the inputs.
C24_NotObservingWhileActive ==
    isScrolling => unifiedObserver # "observing"

\* what does hold: during an Active window the watcher starts observing
\* only by a register call that finds no observer and creates one
C24_ObservingOnlyByRegister ==
    [][(isScrolling /\ isScrolling'
          /\ unifiedObserver # "observing" /\ unifiedObserver' = "observing") =>
            /\ unifiedObserver = "null"
            /\ \E id \in HandlerIds, callback \in Callbacks :
                  registerObserverHandler(id, callback)
      ]_vars

\* ------------------------------------------------------------------------
\* Properties of setObserverHandlerActive
\* ------------------------------------------------------------------------
\* the handler registered under id, and whether it is inactive
HandlerOf(hs, id) == hs[CHOOSE i \in 1..Len(hs) : hs[i].id = id]

Inactive(hs, id) == HasHandler(hs, id) /\ ~HandlerOf(hs, id).active

HandlerIdsOf(hs) == [i \in 1..Len(hs) |-> hs[i].id]

\* a frame runs at least one dispatch
DispatchStep == rafQueue # {} /\ rafQueue' = {}

\* C25 (as claimed): a handler made inactive stays registered and out of
\* every dispatch until setObserverHandlerActive(id, true): nothing but
\* that call, or its removal, ends its being inactive.
C25_InactiveUntilSetActiveTrue ==
    [][\A id \in HandlerIds :
          (Inactive(observerHandlers, id) /\ ~Inactive(observerHandlers', id)) =>
              \/ setObserverHandlerActive(id, TRUE)
              \/ unregisterObserverHandler(id)
      ]_vars

\* C25: setObserverHandlerActive(id, false) keeps the handler registered,
\* and an inactive handler is called in no dispatch; it stays inactive
\* until setObserverHandlerActive(id, true), a new registerObserverHandler(id)
\* (which puts an active handler in its place) or its removal.  The call
\* changes the active flag of that handler only, leaves the watcher as it
\* is, and does nothing for an id that is not registered.
C25_InactiveUntilSetActiveOrRegister ==
    /\ [][\A id \in HandlerIds :
            (Inactive(observerHandlers, id) /\ ~Inactive(observerHandlers', id)) =>
                \/ setObserverHandlerActive(id, TRUE)
                \/ \E callback \in Callbacks : registerObserverHandler(id, callback)
                \/ unregisterObserverHandler(id)
        ]_vars
    /\ [][DispatchStep =>
            \A i \in 1..Len(frameLog'.calls) :
                ~Inactive(observerHandlers, frameLog'.calls[i].id)
        ]_vars
    /\ [][\A id \in HandlerIds, a \in BOOLEAN :
            setObserverHandlerActive(id, a) =>
                /\ unifiedObserver' = unifiedObserver
                /\ HandlerIdsOf(observerHandlers') = HandlerIdsOf(observerHandlers)
                /\ \A i \in 1..Len(observerHandlers) :
                      IF observerHandlers[i].id = id
                      THEN observerHandlers'[i].active = a
                      ELSE observerHandlers'[i] = observerHandlers[i]
                /\ (~HasHandler(observerHandlers, id) =>
                       observerHandlers' = observerHandlers)
        ]_vars

\* a frame dispatched a batch while two handlers are registered and both
\* are inactive: nothing was called, and the watcher is still observing
C25_Witness ==
    /\ Len(observerHandlers) = 2
    /\ \A id \in HandlerIds : Inactive(observerHandlers, id)
    /\ unifiedObserver = "observing"
    /\ frameLog.dispatches = 1
    /\ frameLog.calls = <<>>
    /\ frameLog.active = {}

\* ------------------------------------------------------------------------
\* Properties of the route a Continue Watching click navigates to
\* ------------------------------------------------------------------------
\* the click handler ran
ClickStep == clickLog' # clickLog

\* C26: a click whose lookup hits a fingerprint that is not older than 30
\* days pre-empts the default navigation and sets the route to
\* #/player/<videoId>/<streamHash>; a third segment <season>:<episode> is
\* appended only for a series whose season and episode are both set
\* (exactly: for a series whose season and episode are both set and not 0).
\* On a miss or a stale entry the click is not pre-empted and the route is
\* left as it was.
C26_RouteFromFingerprint ==
    [][ClickStep =>
        LET c     == clickLog'
            saved == c.savedStream.value
            fresh == c.savedStream.found /\ ~(c.now - saved.timestamp > thirtyDaysMs)
        IN  IF fresh
            THEN /\ c.defaultPrevented
                 /\ c.outcome = "navigated"
                 /\ route' = "player"
                 /\ Len(c.playerUrl) \in {3, 4}
                 /\ c.playerUrl[1] = <<"player">>
                 /\ c.playerUrl[2] = saved.videoId
                 /\ c.playerUrl[3] = saved.streamHash
                 /\ (Len(c.playerUrl) = 4 =>
                        /\ saved.type = "series"
                        /\ saved.season.known /\ saved.episode.known
                        /\ c.playerUrl[4] =
                              <<Digits(saved.season.n), ":", Digits(saved.episode.n)>>)
                 /\ (Len(c.playerUrl) = 4 <=>
                        /\ saved.type = "series"
                        /\ saved.season.known /\ saved.season.n # 0
                        /\ saved.episode.known /\ saved.episode.n # 0)
            ELSE /\ ~c.defaultPrevented
                 /\ c.outcome # "navigated"
                 /\ c.playerUrl = <<>>
                 /\ route' = route
    ]_vars

\* a click on a series card was sent to #/player/vid1/hashA/1:2
C26_Witness ==
    /\ clickLog.outcome = "navigated"
    /\ clickLog.defaultPrevented
    /\ route = "player"
    /\ clickLog.playerUrl = << <<"player">>, <<"vid1">>, <<"hashA">>, <<"1", ":", "2">> >>

\* a click on a movie card was sent to #/player/vid1/hashA
C26_WitnessMovie ==
    /\ clickLog.outcome = "navigated"
    /\ clickLog.savedStream.value.type = "movie"
    /\ clickLog.playerUrl = << <<"player">>, <<"vid1">>, <<"hashA">> >>

\* a click on a series card saved with season 0 got no third segment
C26_WitnessSeasonZero ==
    /\ clickLog.outcome = "navigated"
    /\ clickLog.savedStream.value.type = "series"
    /\ clickLog.savedStream.value.season = Num(0)
    /\ Len(clickLog.playerUrl) = 3

\* ------------------------------------------------------------------------
\* Properties of the marker and of the launch requests
\* ------------------------------------------------------------------------
\* C27: between any two steps of the event loop the body class
\* external-player-active is present exactly when the busy flag is true,
\* through interception runs, skips, exhaustion, cooldown end and
\* play-button clicks.
C27_MarkerIffBusy ==
    externalPlayerActive <=> isHandlingExternalPlayer

\* a play-button click set the flag and the marker, and the navigation that
\* followed found the flag set and returned: both are on, no session runs
C27_Witness ==
    /\ lastLog = "already-handling"
    /\ isHandlingExternalPlayer
    /\ externalPlayerActive
    /\ \A s \in Slots : ~InFlight(s)

\* a session ran into exhaustion: both are off again
C27_WitnessExhausted ==
    /\ lastLog = "failed"
    /\ ~isHandlingExternalPlayer
    /\ ~externalPlayerActive

\* a navigation was skipped for a setting that is not an external player
C27_WitnessSkip ==
    /\ lastLog = "skipping"
    /\ ~isHandlingExternalPlayer
    /\ ~externalPlayerActive

\* ------------------------------------------------------------------------
\* Properties of the batch a dispatch passes on
\* ------------------------------------------------------------------------
\* C28: the batches of a burst are numbered 1, 2, ... in the order of their
\* delivery.  Every call of a dispatch gets the batch delivered last in its
\* burst, none gets an earlier one; and the frame callback that is pending
\* holds the batch delivered last.
C28_LastBatchOnly ==
    /\ \A i \in 1..Len(frameLog.calls) : frameLog.calls[i].mutations = frameLog.burst
    /\ \A c \in rafQueue : c.mutations = burst

\* a burst of two batches went into one dispatch, and the one active
\* handler was called with the second batch
C28_Witness ==
    /\ frameLog.burst = 2
    /\ frameLog.dispatches = 1
    /\ Len(frameLog.calls) = 1
    /\ frameLog.calls[1].mutations = 2

\* ------------------------------------------------------------------------
\* Properties of a lookup after a save
\* ------------------------------------------------------------------------
\* the keys a completed save stores its fingerprint under
SaveKeys ==
    {saveLog'.storageKey}
    \cup (IF saveLog'.streamInfo.type = "series"
          THEN {saveLog'.streamInfo.contentId} ELSE {})

\* the lookup of every key of the save returns the fingerprint just saved
FoundAfterSave ==
    \A k \in SaveKeys :
        getSavedStreamInfo(lastStreams', k) =
            [found |-> TRUE, value |-> saveLog'.streamInfo, raised |-> FALSE]

\* C29 (as claimed): after a completed save whose timestamp is not older
\* than that of any entry already stored, the lookup of the key it wrote
\* returns the fingerprint just saved.
C29_FoundUnlessOlder ==
    [][SaveStep =>
        LET before == JSONparse(lastStreams).entries
        IN  (\A i \in 1..Len(before) :
                before[i].value.timestamp <= saveLog'.streamInfo.timestamp)
            => FoundAfterSave
    ]_vars

\* C29: after a completed save whose timestamp is newer than that of every
\* entry stored under another key, the lookup of each key it wrote returns
\* the fingerprint just saved: cap enforcement does not evict it.
C29_FoundWhenNewer ==
    [][SaveStep =>
        LET before == JSONparse(lastStreams).entries
        IN  (\A i \in 1..Len(before) :
                before[i].key \notin SaveKeys =>
                    before[i].value.timestamp < saveLog'.streamInfo.timestamp)
            => FoundAfterSave
    ]_vars

\* a series save at time 1000 onto 100 entries of time 1 built a map of 102
\* entries; the cap cut it to 100 and both keys of the save are among them
C29_Witness ==
    /\ saveLog.outcome = "saved"
    /\ saveLog.streamInfo.type = "series"
    /\ saveLog.streamInfo.timestamp = 1000
    /\ saves = 1
    /\ Len(savedStreams) = MaxEntries + 2
    /\ Len(lastStreams.entries) = MaxEntries
    /\ getSavedStreamInfo(lastStreams, saveLog.storageKey).found
    /\ getSavedStreamInfo(lastStreams, NewId).value = saveLog.streamInfo
    /\ \A i \in 1..Len(lastStreams.entries) :
          lastStreams.entries[i].value.timestamp = 1 \/
          lastStreams.entries[i].value = saveLog.streamInfo

\* a session begins in slot s
StartStep(s) == sess[s].pc = "idle" /\ sess'[s].pc = "eval"

\* C30: the player of every launch request is "vlc" or "mpchc" and is the
\* setting that was stored when its session began: a session takes its
\* player from the setting at its start and keeps it to its end, the
\* launch request carries that player whatever is stored by then, and a
\* change of the setting changes nothing of a session in flight (its
\* position, attempt count, busy flag, marker, requests sent).
C30_PlayerFixedAtStart ==
    /\ [](\A s \in Slots :
            /\ \A i \in 1..Len(launches[s]) : launches[s][i].player \in {"vlc", "mpchc"}
            /\ InFlight(s) =>
                  /\ sess[s].player \in {"vlc", "mpchc"}
                  /\ \A i \in 1..Len(launches[s]) : launches[s][i].player = sess[s].player)
    /\ [][\A s \in Slots :
            /\ (StartStep(s) => sess'[s].player = externalPlayer)
            /\ (InFlight(s) /\ InFlight(s)' => sess'[s].player = sess[s].player)
            /\ (LaunchStep(s) =>
                  /\ Len(launches'[s]) = 1
                  /\ launches'[s][1].player = sess[s].player)
       ]_vars
    /\ [][externalPlayer' # externalPlayer =>
            UNCHANGED <<sess, launches, navBacks, isHandlingExternalPlayer,
                        externalPlayerActive, video, route>>
       ]_vars

\* a session that began under mpchc sent its request for mpchc on its
\* second attempt, while the stored setting is the internal player
C30_Witness ==
    /\ sess[1].pc = "cooldown"
    /\ sess[1].attempt = 1
    /\ sess[1].player = "mpchc"
    /\ Len(launches[1]) = 1
    /\ launches[1][1].player = "mpchc"
    /\ externalPlayer = BUILTIN

\* a session that began under vlc is still locating after the setting was
\* changed to mpchc
C30_WitnessLocating ==
    /\ sess[1].pc = "sleep"
    /\ sess[1].attempt = 1
    /\ sess[1].player = "vlc"
    /\ externalPlayer = "mpchc"
    /\ isHandlingExternalPlayer

====
